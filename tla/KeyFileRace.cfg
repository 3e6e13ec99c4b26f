SPECIFICATION ControllerSpec
CONSTANTS
    Configs <- OneKey
PROPERTY DropsOnlyOnChange
