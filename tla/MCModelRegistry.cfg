SPECIFICATION Spec
CONSTANTS
    console = console
    command = command
    NoName = NoName
    NoSpec = NoSpec
    Procs = {console, command}
    Consoles = {console}
    Names <- AllNames
    Rank <- Alphabet
    Kinds = {"openai", "anthropic", "deepseek", "opnai"}
    Refs <- AllRefs
    Base <- Shipped
    BaseActive = "default"
    Overlay <- DeepSeek
    Offers <- OnOffer
    Portables <- Received
    MaxStarts = 3
INVARIANTS
    TypeOK
    RestartFindsProfiles
    ProviderOfActiveProfile
CHECK_DEADLOCK FALSE
