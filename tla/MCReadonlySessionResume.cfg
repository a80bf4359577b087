SPECIFICATION Spec
CONSTANTS
    None = None
    Times = {1}
    Packages <- MCPackages
    Grants <- MCGrants
    Offers <- OneGrant
    Turns <- OneTurn
    MaxExits = 1
PROPERTIES
    ResumeConcludes
