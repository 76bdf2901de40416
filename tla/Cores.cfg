SPECIFICATION FairSpec
CONSTANTS
  SendSize = 1
  Chosen = {"alu", "imm", "mem", "control", "noc",
            "double", "compare", "shift", "rotate", "shiftimm", "logic", "blocks", "calls", "special",
            "exceptions", "other", "armnoc",
            "double3", "compare3", "shift3", "rotate3", "logic3", "products3", "words3", "blocks3", "calls3", "armnoc3",
            "traffic", "patterns", "tornado", "netrace"}
INVARIANT ArmProgramsCompute
INVARIANT TrafficConserved
INVARIANT TraceKept
INVARIANT DependenciesFirst
PROPERTY RiscvImplementsIsa
PROPERTY ContextRestored
PROPERTY ProgramsEnd
