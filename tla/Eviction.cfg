SPECIFICATION EvictionSpec
PROPERTIES
    LiftAdmits
