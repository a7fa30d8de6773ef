--------------------------- MODULE MCTaskManager ---------------------------
(* Instances of TaskManager for TLC.  The logic scripts are those whose     *)
(* departures from the common life cycle matter to the manager.             *)
EXTENDS TaskManager

CONSTANTS luyen_cong, thu_nghiep, noi_tu, hao_kiet, farm, escort

Two == {luyen_cong, thu_nghiep}
WithNoiTu == {luyen_cong, thu_nghiep, noi_tu}
Odd == {hao_kiet, farm, escort}
OddForms == {hao_kiet, farm}
Farming == {farm, luyen_cong}

MCTraits ==
    [l \in Logics |->
        CASE l = luyen_cong -> {"neverWaits"}
          [] l = thu_nghiep -> {}
          [] l = noi_tu     -> {"noInterrupt", "neverDone"}
          [] l = hao_kiet   -> {"guardedStart", "neverWaits", "stoppedByMessage"}
          [] l = farm       -> {"silent", "noInterrupt", "alwaysRuns"}
          [] l = escort     -> {"guardedStop", "neverWaits", "stopsOnDeath"}]

FarmUnset == [MCTraits EXCEPT ![farm] = @ \cup {"unset"}]

Ini(list, done, die) == [todo |-> list, stopOnDone |-> done, stopOnDie |-> die]

Daily == <<luyen_cong, thu_nghiep>>
DailyNoiTu == <<luyen_cong, thu_nghiep, noi_tu>>

DailyStops == {Ini(Daily, TRUE, FALSE)}
DailyGoesOn == {Ini(Daily, FALSE, FALSE)}
NoiTuStops == {Ini(DailyNoiTu, TRUE, FALSE)}
Mortal == {Ini(Daily, TRUE, TRUE), Ini(Daily, FALSE, TRUE)}
EitherEnd == {Ini(Daily, TRUE, FALSE), Ini(Daily, FALSE, FALSE)}
Edited == EitherEnd \cup {Ini(<<thu_nghiep>>, FALSE, FALSE)}
OddList == {Ini(<<hao_kiet, escort>>, TRUE, TRUE)}
FarmList == {Ini(<<farm, luyen_cong>>, TRUE, FALSE)}

Nobody == {}
LuyenCong == {luyen_cong}
ThuNghiep == {thu_nghiep}
=============================================================================
