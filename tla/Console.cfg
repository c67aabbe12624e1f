SPECIFICATION Spec
CONSTANTS
    Slots = {1, 2}
    Ids = {1, 2}
    LastPage = 2
    Channels = {1}
    TokenIds = {1, 2}
    ModelNames = {"gpt", "opus"}
    PlanIds = {1, 2}
    Fillings = {1, 2}
    Questions = {1, 2, 3}
    Credentials = {1, 2, 3}
    Codes = {1, 2}
    MaxAttempts = 2
    CallTabs = {1, 2}
    SetupTabs = {"one", "two"}
    PlazaModels = {1, 2, 3}
    Named = {1, 3}
    Unpriced = {1}
    GroupNames = {"vip", "std"}
    PageSize = 1
    Sources = {"users", "channels"}
    MaxLoads = 3
INVARIANTS
    TypeOK
    PageLabelMatchesRows
    OneDialogWrite
    KeepsUpstreamKey
    ChannelListSettles
    SecretsShown
    
    OnePlanPerForm
    
    AnswerFollowsQuestion
    
    NoneStranded
    GuessesBounded
    LoginImpliesSetup
    OnlyValidSubmitted
    MatchesAreShown
    ClassMatchesTheme
    ScrollLockFollowsDrawer
    BannerTellsTruth
