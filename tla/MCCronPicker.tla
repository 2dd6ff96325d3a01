---------------------------- MODULE MCCronPicker ----------------------------
EXTENDS CronPicker

List(n) == Tok("list", {n}, {})

\* "30 * * * 1-5", "*/5 3 * * 0", "0-30/5 3 * * MON", "0 3 * * WED".
MCSchedules ==
  { <<>>,
    <<List(30), Every, Every, Every, Tok("range", {1}, {5})>>,
    <<Tok("everyRate", {}, {5}), List(3), Every, Every, List(0)>>,
    <<Tok("step", {0}, {5}), List(3), Every, Every, Tok("name", {}, {})>>,
    <<List(0), List(3), Every, Every, Tok("wed", {}, {})>> }

MCTyped == {{}, {-1}}
MCEditTabs == {0, 3, 5}

\* The two conversions of the page are inverse on schedules of five fields.
ASSUME \A e \in MCSchedules : e # <<>> => Cron7to5(Cron5to7(e)) = e
=============================================================================
