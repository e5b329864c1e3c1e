SPECIFICATION Spec
CONSTANTS
    MaxRsaBytes = 256
    Objects <- MCObjects
    Templates <- MCTemplates
    Starts <- MCStarts
    ParamSize = 40
INVARIANTS TypeOK SessionKeysAgree MeantUseWorks ImportUnwraps TemplateAccepted
