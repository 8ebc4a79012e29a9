SPECIFICATION ImagesSpec
CONSTANTS
    Instances = {"a", "b"}
    ImageFormats = {"rpm", "deb"}
    Environs = {"el9"}
    MaxImages = 3
    MaxStops = 0
INVARIANTS
    InstancesAreIndependent
CHECK_DEADLOCK FALSE
