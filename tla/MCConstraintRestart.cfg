SPECIFICATION Spec
CONSTANTS
    Rank <- MCRank
    Starts <- MCStarts
    Configs <- MCConfigs
    Composite = "-"
    UpdateConstraints <- MCUpdateConstraints
    DeleteConstraints <- MCDeleteConstraints
    References <- MCReferences
    Actions <- MCActions
    RegexSearch <- MCRegexSearch
    RegexMatch <- MCRegexMatch
    MaxItems = 2
PROPERTIES
    RestartAccepts
