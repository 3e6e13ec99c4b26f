SPECIFICATION ControllerSpec
CONSTANTS
    Configs <- ManagedConfigs
INVARIANT ControllerTypeOK
PROPERTY RegistrationKept
