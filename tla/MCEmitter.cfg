SPECIFICATION Spec
CONSTANTS
    Regs = {"rax", "rcx", "rdx", "rdi", "r8", "rbx"}
    CalleeSaved = {"rbx"}
    ArgRegs <- MCArgRegs
    Scratch <- MCScratch
    Slots = {"s1", "s2"}
    Globals = {"g"}
    Imms = {"i"}
    LongImms = {"I"}
    Sizes = {1, 4, 8}
    Saved <- MCSaved
    Arguments <- MCArguments
    BlockMoves <- MCBlockMoves
    Locals = 2
    Untyped = {}
INVARIANTS
    ResultArrives
    OthersKept
    ArgumentsArrive
    CallerUnharmed
PROPERTY
    OnlyCyclesKeepScratch
CHECK_DEADLOCK FALSE
