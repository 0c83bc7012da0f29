----------------------------- MODULE MCFounding -----------------------------
(* Instances of Founding for TLC, from a cluster that does not exist yet. *)
EXTENDS Founding, FiniteSetsExt

(* What may go on while a cluster is founded: the smallest one grows, a larger one shrinks
   while calls of the pass fail; or, where the cache lags, the smallest one is upgraded, or
   fails in any way. *)
Scenario ==
  /\ target # Max(Sizes)
  /\ IF lags THEN target = Min(Sizes) /\ edits = MaxEdits ELSE edits = 0 /\ upgrades = MaxUpgrades
  /\ faults = IF target = Min(Sizes) /\ (lags => upgrades = 0) THEN MaxFaults ELSE 0

(* The smallest cluster is made the largest at any time, a larger one the smallest once it
   has been founded. *)
Resizes ==
  /\ target' = IF target = Min(Sizes) THEN Max(Sizes) ELSE Min(Sizes)
  /\ target # Min(Sizes) => roster # NoRoster

(* The failure of a call, which the pass survives. *)
CallFails == faults' # faults /\ pc' \notin {pc, "idle"}

(* Init of module Scaling with the budgets of edits and failures partly used up. *)
MCInit ==
  /\ target \in Sizes /\ edits \in 0 .. MaxEdits
  /\ image = (CHOOSE i \in Images : TRUE) /\ upgrades \in 0 .. MaxUpgrades
  /\ lags \in StaleReads
  /\ bootstrapSize = 0 /\ bootstrapped = FALSE
  /\ sts = NoSts /\ cached = NoSts /\ fresh = TRUE
  /\ revision = NoImage
  /\ pods = NoPods /\ podImage = NoImages
  /\ roster = NoRoster /\ hosts = {}
  /\ pc = "idle" /\ pass = NoPass
  /\ faults \in 0 .. MaxFaults
  /\ rosterSeen = FALSE /\ dataSeen = FALSE
  /\ phase = "" /\ currentImage = NoImage /\ listing = NoListing
  /\ EntryInit
  /\ Scenario

MCNext == FoundingNext /\ (target' # target => Resizes) /\ (faults' # faults => lags \/ CallFails)

MCSpec == MCInit /\ [][MCNext]_everything /\ FoundingFairness
=============================================================================
