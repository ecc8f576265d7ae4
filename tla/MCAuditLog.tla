------------------------------ MODULE MCAuditLog ------------------------------
EXTENDS AuditLog

MCWorking == <<0, 0>>

(* Every day of the first years, of a leap year, and of the years around     *)
(* ends of centuries that are and are not leap years; and a clock that is    *)
(* set before 1970.                                                          *)
MCYears == {1970, 1971, 1972, 1999, 2000, 2001, 2024, 2099, 2100, 2101, 2399, 2400, 2401}

MCClocks ==
    {MCWorking, <<-1, 0>>, <<0, 3599>>, <<0, 3600>>, <<0, 43261>>} \cup
    {<<DayNumber(y, 1, 1) + d, 86399>> : y \in MCYears, d \in 0..365}
=============================================================================
