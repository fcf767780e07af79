SPECIFICATION Spec
CONSTANTS
    Requests = {r1, r2}
    Inputs <- MCInputs
    Users <- MCUsers
    Active <- MCUsers
    Orgs <- MCOrgs
    NilOrg = NilOrg
    Issued <- MCIssued
    OrgOf <- MCOrgOf
    Workspaces = {"w1"}
    WorkspaceOf <- MCWorkspaceOf
    Grants <- MCGrants
    Apps <- MCApps
    Endpoints <- MCEndpoints
    Urls <- MCUrls
    Plural <- MCPlural
    Tables <- MCTables
    Singular <- MCSingular
    Keys <- MCKeys
    Item = Item
    Sensitive <- MCSensitive
    Names <- MCNames
    ColumnOf <- MCColumnOf
    Writable <- MCWritable
    Accepts <- MCAccepts
    MaxLimit = 2
    DefaultLimit = 1
    Ids <- MCIds
    Seed <- MCSeed
    Faults = {"read", "write", "reply", "proxy"}
    None = None
    Bad = Bad
SYMMETRY RequestSymmetry
INVARIANTS
    SchemaDecides
PROPERTIES
    
    
    MaskedAtBackend
    
