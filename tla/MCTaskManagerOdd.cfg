CONSTANTS
    luyen_cong = luyen_cong
    thu_nghiep = thu_nghiep
    noi_tu = noi_tu
    hao_kiet = hao_kiet
    farm = farm
    escort = escort
    Mgr = Mgr
    None = None
    NoiTu <- noi_tu
    Traits <- FarmUnset
    Logics <- Odd
    Configs <- OddList
    Windowed <- Nobody
    TaskForms <- OddForms
    Reopen = FALSE
    Patient = FALSE
    Encounters = 1
    MaxAsleep = 2
SPECIFICATION FairSpec
INVARIANTS
    RunningHasLoop
PROPERTIES
    BurstsEnd
