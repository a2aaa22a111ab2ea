\* Kernels of two or three arguments by value.
SPECIFICATION InterfaceSpec
CONSTANTS
    Programs <- StructPrograms
    Memories = {0}
    Types <- AllTypes
    Modules <- AllModules
INVARIANTS
    IndexesFixed
