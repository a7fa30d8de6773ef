CONSTANTS
    luyen_cong = luyen_cong
    thu_nghiep = thu_nghiep
    noi_tu = noi_tu
    hao_kiet = hao_kiet
    farm = farm
    escort = escort
    Mgr = Mgr
    None = None
    NoiTu <- noi_tu
    Traits <- MCTraits
    Logics <- Two
    Configs <- Edited
    Windowed <- Nobody
    TaskForms <- LuyenCong
    Reopen = TRUE
    Patient = FALSE
    Encounters = 0
    MaxAsleep = 2
SPECIFICATION Spec
INVARIANTS
    StopLeavesNothing
    ChoosesAlone
    ButtonHonest
    ManagerNotLost
