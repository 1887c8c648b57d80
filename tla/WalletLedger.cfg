CONSTANTS
    Wallets = {w1, w2}
    Prepaid = {w1}
    Offers <- MCOffers
    Bonuses <- MCBonuses
    Debits = {1, 4}
    ConversionRate = 2
    TopupConversionRate = 2
    MaxTime = 2
    MaxRows <- MCMaxRows
    MaxMove = 12
    Grace = 1
SPECIFICATION Spec
INVARIANTS
    TypeOK
    EveryCreditAccountedFor
    AuditTrailChains
    BalanceMatchesRate
    BonusSharesPurchaseFate
PROPERTIES
    ImplementsAccount
    ConversionKeepsTheCredits
    ExpiredCreditsLeaveTheBalance
CHECK_DEADLOCK FALSE
