SPECIFICATION MacSpec
CONSTANTS
    a = a
    b = b
    c = c
    d = d
    nb_iter = nb_iter
    iter_stride = iter_stride
    one_stride = one_stride
    Sources <- MCSources
    Mnemonics <- Mnems
    ReadOnly <- MCReadOnly
    NB_REG = 4
    REG_WIDTH = 5
    CNT_WIDTH = 3
    ADDR_WIDTH = 3
    Params = {0, 1, 2, 3, 4, 5, 6, 7}
    CodeYml <- MCCodeYml
INVARIANT
    CompletesJob
