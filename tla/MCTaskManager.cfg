CONSTANTS
    luyen_cong = luyen_cong
    thu_nghiep = thu_nghiep
    noi_tu = noi_tu
    hao_kiet = hao_kiet
    farm = farm
    escort = escort
    Mgr = Mgr
    None = None
    NoiTu <- noi_tu
    Traits <- MCTraits
    Logics <- WithNoiTu
    Configs <- NoiTuStops
    Windowed <- ThuNghiep
    TaskForms <- Nobody
    Reopen = FALSE
    Patient = TRUE
    Encounters = 1
    MaxAsleep = 2
SPECIFICATION FairSpec
INVARIANTS
    TypeOK
    ListensWhileRunning
    StoppedIsStopped
PROPERTIES
    KeepsSchedule
    SomeTaskRuns
    GivesWay
