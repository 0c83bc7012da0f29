------------------------------ MODULE MCBackup ------------------------------
EXTENDS Backup

On == [present |-> TRUE, suspended |-> FALSE, usable |-> "yes"]

Suspended == [On EXCEPT !.suspended = TRUE]

Absent == [On EXCEPT !.present = FALSE]

Steady ==
  [bootstrapped |-> TRUE, rosterMatches |-> TRUE, bound |-> TRUE,
   pods |-> [o \in 0 .. Targets - 1 |-> "current"]]

Rolling == [Steady EXCEPT !.pods[Targets - 1] = "oldImage"]

AlwaysOn == {On}

OnOffOrInvalid == {On, Suspended, Absent, [On EXCEPT !.usable = "InvalidSchedule"]}

AlwaysSteady == {Steady}

EverySite ==
  {Steady, Rolling, [Steady EXCEPT !.bound = FALSE], [Steady EXCEPT !.rosterMatches = FALSE],
   [Steady EXCEPT !.bootstrapped = FALSE]}
=============================================================================
