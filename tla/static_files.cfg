SPECIFICATION Spec
CONSTANTS
    Sites <- MCSites
    Requests <- MCRequests
    Literals <- MCLiterals
    Prefix <- MCPrefix
    Dir <- MCDir
    MaxChanges = 2
    MaxChunks = 2
CHECK_DEADLOCK FALSE
INVARIANTS
    AnsweredByName
    FilesStayServed
    LinksLead
    FormSurvives
