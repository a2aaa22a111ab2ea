\* Kernels of up to five arguments, alone and in pairs.
SPECIFICATION InterfaceSpec
CONSTANTS
    Programs <- MCPrograms
    Memories = {0, 6, 16}
    Types <- AllTypes
    Modules <- AllModules
INVARIANTS
    ResourcesDistinct
    ArgumentsArrive
    ReflectionIsRead
    SharedIsGiven
