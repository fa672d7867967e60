SPECIFICATION Spec
CONSTANTS
    Requests = {"r1", "r2"}
    Regions = {m1, m2, m3}
    Global = global
    SgLists <- MCSgLists
    mr_page_size = 2
    max_pages_per_mr = 2
    cmd_sg_cnt = 2
    sg_tablesize = 3
    allow_ext_sg = FALSE
    max_imm_sge = 1
    max_imm_len = 2
    max_remaps = 2
    PostMayFail = FALSE
    MaxRefused = 1
SYMMETRY MCSymmetry
INVARIANTS TypeOK MapsExactly  RegionsConserved
