CONSTANTS
    luyen_cong = luyen_cong
    thu_nghiep = thu_nghiep
    noi_tu = noi_tu
    hao_kiet = hao_kiet
    farm = farm
    escort = escort
    Mgr = Mgr
    None = None
    NoiTu <- noi_tu
    Traits <- MCTraits
    Logics <- Two
    Configs <- DailyGoesOn
    Windowed <- Nobody
    TaskForms <- Nobody
    Reopen = FALSE
    Patient = TRUE
    Encounters = 0
    MaxAsleep = 2
SPECIFICATION Spec
INVARIANTS
    StoppedIsStopped
