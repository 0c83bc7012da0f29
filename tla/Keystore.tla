------------------------------ MODULE Keystore ------------------------------
(***************************************************************************)
(* The TLS keystore the pods mount: certificate.go, with the steps of      *)
(* Reconcile that run it and save the KeystoreReady condition.             *)
(*                                                                         *)
(* The operator reads Secrets through its cache, which holds an earlier    *)
(* state of both Secrets; the Certificate and the KahunaCluster are read   *)
(* from the API server.  cert-manager, the garbage collector and the user  *)
(* act between any two steps of a pass.                                    *)
(***************************************************************************)
EXTENDS Integers, Sequences

CONSTANTS
  Modes,        \* where keystore and password may come from
  Given,        \* whether the password Secret the user names may exist from the start
  MaxChanges,   \* how often user and cert-manager change something of their own accord
  MaxAborts,    \* how many passes end early
  MaxWrites     \* how often the keystore Secret is written, a bound the changes never let it reach

(* spec.tls: cert-manager with a generated or a supplied password, or a keystore of the user's
   own with a password or without. *)
AllModes == {"generated", "supplied", "own", "unprotected"}

ASSUME KeystoreAssumption ==
  /\ Modes \subseteq AllModes /\ Modes # {}
  /\ Given \subseteq BOOLEAN /\ Given # {}
  /\ MaxChanges \in Nat /\ MaxAborts \in Nat /\ MaxWrites \in Nat
  /\ MaxWrites >= 3 + 4 * MaxChanges

VARIABLES
  mode,         \* spec.tls
  alive, uid,   \* whether the KahunaCluster exists, and which one of its name it is
  cert,         \* the uid that owns the Certificate, 0 when there is none
  secrets,      \* the states of the two Secrets from the cached one to the current one
  ready,        \* the KeystoreReady condition as stored
  pc, pass,     \* the next step of the pass, and what it has read
  changes, aborts

vars == <<mode, alive, uid, cert, secrets, ready, pc, pass, changes, aborts>>

(* A password, and whether its Secret ends it with a newline. *)
Passwords == [id : Nat, newline : BOOLEAN]

NoPassword == [id |-> 0, newline |-> FALSE]

(* The password as the pods read it. *)
Trimmed(p) == [p EXCEPT !.newline = FALSE]

(* A keystore Secret: whether it has the key, what opens it, which version of the password Secret
   that was, and whether cert-manager issued it for this Certificate.  rv is its resourceVersion. *)
KeystoreSecrets ==
  [there : BOOLEAN, key : BOOLEAN, opens : Passwords, seal : Nat, issued : BOOLEAN, rv : 0 .. MaxWrites]

NoKeystore(rv) ==
  [there |-> FALSE, key |-> FALSE, opens |-> NoPassword, seal |-> 0, issued |-> FALSE, rv |-> rv]

PasswordSecrets == [there : BOOLEAN, value : Passwords, owner : Nat, version : Nat]

Cached == secrets[1]

Current == secrets[Len(secrets)]

CertManager == mode \in {"generated", "supplied"}

NoPass == [uid |-> 0, ks |-> NoKeystore(0), pw |-> NoPassword, ready |-> FALSE]

(* No two types are mixed up, and the cache is never ahead of the API server. *)
TypeOK ==
  /\ mode \in Modes /\ alive \in BOOLEAN /\ uid \in Nat /\ cert \in 0 .. uid /\ ready \in BOOLEAN
  /\ secrets \in Seq([ks : KeystoreSecrets, pw : PasswordSecrets]) /\ Len(secrets) > 0
  /\ \A i \in 1 .. Len(secrets) - 1 :
       /\ secrets[i].ks.rv <= secrets[i + 1].ks.rv
       /\ secrets[i].pw.version <= secrets[i + 1].pw.version
  /\ pc \in {"idle", "password", "certificate", "keystore", "open", "replace", "exists",
             "material", "secret", "test", "save"}
  /\ pass \in [uid : 0 .. uid, ks : KeystoreSecrets, pw : Passwords, ready : BOOLEAN]
  /\ changes \in 0 .. MaxChanges /\ aborts \in 0 .. MaxAborts
-----------------------------------------------------------------------------
(* The user's password Secret, if there is one yet. *)
SuppliedSecret ==
  {[there |-> g, value |-> IF g THEN [id |-> 1, newline |-> n] ELSE NoPassword, owner |-> 0, version |-> 1] :
     g \in Given, n \in BOOLEAN}

(* A keystore that was there before: the user's own, one without the key, or the one cert-manager
   issued for an earlier KahunaCluster of this name. *)
EarlierKeystores ==
  {NoKeystore(0)} \cup
  {[there |-> TRUE, key |-> k, opens |-> [id |-> i, newline |-> FALSE], seal |-> 0, issued |-> k /\ CertManager,
    rv |-> 1] : k \in BOOLEAN, i \in 0 .. 1}

Init ==
  /\ mode \in Modes
  /\ alive = TRUE /\ uid = 1 /\ cert = 0 /\ ready = FALSE
  /\ \E ks \in EarlierKeystores,
        pw \in IF mode \in {"supplied", "own"} THEN SuppliedSecret
               ELSE {[there |-> FALSE, value |-> NoPassword, owner |-> 0, version |-> 1]} :
       secrets = <<[ks |-> ks, pw |-> pw]>>
  /\ pc = "idle" /\ pass = NoPass
  /\ changes = 0 /\ aborts = 0

WriteKeystore(ks) == secrets' = Append(secrets, [Current EXCEPT !.ks = [ks EXCEPT !.rv = Current.ks.rv + 1]])

WritePassword(pw) == secrets' = Append(secrets, [Current EXCEPT !.pw = [pw EXCEPT !.version = Current.pw.version + 1]])

Begin ==
  /\ pc = "idle" /\ alive
  /\ pc' = "password" /\ pass' = [NoPass EXCEPT !.uid = uid]
  /\ UNCHANGED <<mode, alive, uid, cert, secrets, ready, changes, aborts>>

(* A random password, unlike every one before it. *)
Generated ==
  [there |-> TRUE, value |-> [id |-> Current.pw.version + 1, newline |-> FALSE], owner |-> pass.uid, version |-> 0]

reconcileKeystorePasswordRewrites ==
  /\ pc = "password" /\ pc' = "certificate"
  /\ IF mode = "generated" /\ ~Cached.pw.there
       THEN WritePassword(Generated)
       ELSE UNCHANGED secrets
  /\ UNCHANGED <<mode, alive, uid, cert, ready, pass, changes, aborts>>

(* Creates the password Secret when the cache has none; a Secret that exists by now is kept. *)
reconcileKeystorePassword ==
  /\ pc = "password" /\ pc' = "certificate"
  /\ IF mode = "generated" /\ ~Cached.pw.there /\ ~Current.pw.there
       THEN WritePassword(Generated)
       ELSE UNCHANGED secrets
  /\ UNCHANGED <<mode, alive, uid, cert, ready, pass, changes, aborts>>

(* Creates the Certificate, or takes over the one of an earlier KahunaCluster of this name. *)
reconcileCertificate ==
  /\ pc = "certificate"
  /\ IF CertManager
       THEN cert' = pass.uid /\ pc' = "keystore"
       ELSE UNCHANGED cert /\ pc' = "exists"
  /\ UNCHANGED <<mode, alive, uid, secrets, ready, pass, changes, aborts>>

(* The keystore is read first and its password second; either may be missing. *)
readKeystore(from, found, missing) ==
  /\ pc = from
  /\ IF Cached.ks.there /\ Cached.ks.key /\ mode # "unprotected"
       THEN pc' = found /\ pass' = [pass EXCEPT !.ks = Cached.ks]
       ELSE pc' = missing /\ pass' = [pass EXCEPT !.ready = TRUE]
  /\ UNCHANGED <<mode, alive, uid, cert, secrets, ready, changes, aborts>>

readPassword(from, found, missing) ==
  /\ pc = from
  /\ IF Cached.pw.there
       THEN pc' = found /\ pass' = [pass EXCEPT !.pw = Cached.pw.value]
       ELSE pc' = missing /\ pass' = [pass EXCEPT !.ready = TRUE]
  /\ UNCHANGED <<mode, alive, uid, cert, secrets, ready, changes, aborts>>

opensWith(ks, password) == ks.opens = password

PreconditionsNone(ks) == Current.ks.there

(* The Secret to delete is still the one that was tested. *)
Preconditions(ks) == Current.ks = ks

StaleTrimmed == pass.ks.issued /\ ~opensWith(pass.ks, Trimmed(pass.pw))

Stale == pass.ks.issued /\ ~opensWith(pass.ks, pass.pw)

replaceStaleKeystore ==
  /\ pc = "replace" /\ pc' = "exists"
  /\ IF Stale /\ Preconditions(pass.ks)
       THEN WriteKeystore(NoKeystore(0))
       ELSE UNCHANGED secrets
  /\ UNCHANGED <<mode, alive, uid, cert, ready, pass, changes, aborts>>

(* certificateReady: the Secret and its key, then both Secrets again, then the password as the pods
   will see it. *)
KeystoreExists ==
  /\ pc = "exists"
  /\ IF Cached.ks.there /\ Cached.ks.key
       THEN pc' = "material" /\ UNCHANGED pass
       ELSE pc' = "save" /\ pass' = [pass EXCEPT !.ready = FALSE]
  /\ UNCHANGED <<mode, alive, uid, cert, secrets, ready, changes, aborts>>

ReadyUntrimmed == opensWith(pass.ks, pass.pw)

Ready == opensWith(pass.ks, Trimmed(pass.pw))

TestKeystore ==
  /\ pc = "test" /\ pc' = "save"
  /\ pass' = [pass EXCEPT !.ready = Ready]
  /\ UNCHANGED <<mode, alive, uid, cert, secrets, ready, changes, aborts>>

certificateReady == KeystoreExists \/ readKeystore("material", "secret", "save")
                    \/ readPassword("secret", "test", "save") \/ TestKeystore

(* reconcileStatus: the update is refused when the KahunaCluster is not the one that was read. *)
SaveStatus ==
  /\ pc = "save" /\ pc' = "idle" /\ pass' = NoPass
  /\ ready' = IF alive /\ pass.uid = uid THEN pass.ready ELSE ready
  /\ UNCHANGED <<mode, alive, uid, cert, secrets, changes, aborts>>

(* A step of the pass fails, or the operator stops. *)
Abort ==
  /\ pc # "idle" /\ aborts < MaxAborts
  /\ pc' = "idle" /\ pass' = NoPass /\ aborts' = aborts + 1
  /\ UNCHANGED <<mode, alive, uid, cert, secrets, ready, changes>>

Pass ==
  \/ Begin \/ reconcileKeystorePassword \/ reconcileCertificate
  \/ readKeystore("keystore", "open", "exists") \/ readPassword("open", "replace", "exists")
  \/ replaceStaleKeystore \/ certificateReady \/ SaveStatus
-----------------------------------------------------------------------------
CacheCatchesUp ==
  /\ Len(secrets) > 1 /\ secrets' = Tail(secrets)
  /\ UNCHANGED <<mode, alive, uid, cert, ready, pc, pass, changes, aborts>>

Issued ==
  [there |-> TRUE, key |-> TRUE, opens |-> Current.pw.value, seal |-> Current.pw.version, issued |-> TRUE, rv |-> 0]

(* cert-manager writes a keystore when the Certificate has none, under the password as its Secret
   has it.  A changed password is no reason to write another. *)
Issue ==
  /\ cert # 0 /\ Current.pw.there /\ ~Current.ks.issued /\ Current.ks.rv < MaxWrites
  /\ WriteKeystore(Issued)
  /\ UNCHANGED <<mode, alive, uid, cert, ready, pc, pass, changes, aborts>>

Change == changes < MaxChanges /\ changes' = changes + 1

(* cert-manager renews the certificate, and the keystore with it. *)
Renew ==
  /\ Change
  /\ cert # 0 /\ Current.pw.there /\ Current.ks.issued /\ Current.ks.rv < MaxWrites
  /\ WriteKeystore(Issued)
  /\ UNCHANGED <<mode, alive, uid, cert, ready, pc, pass, aborts>>

(* The user writes the password Secret, with a trailing newline or without. *)
SupplyPassword ==
  /\ Change
  /\ mode \in {"supplied", "own"}
  /\ \E i \in 1 .. 2, n \in BOOLEAN :
       WritePassword([there |-> TRUE, value |-> [id |-> i, newline |-> n], owner |-> 0, version |-> 0])
  /\ UNCHANGED <<mode, alive, uid, cert, ready, pc, pass, aborts>>

(* The user writes a keystore of their own. *)
SupplyKeystore ==
  /\ Change
  /\ ~CertManager /\ Current.ks.rv < MaxWrites
  /\ \E i \in 1 .. 2 :
       WriteKeystore([NoKeystore(0) EXCEPT !.there = TRUE, !.key = TRUE, !.opens = [id |-> i, newline |-> FALSE]])
  /\ UNCHANGED <<mode, alive, uid, cert, ready, pc, pass, aborts>>

DeleteCluster ==
  /\ Change
  /\ alive /\ alive' = FALSE
  /\ UNCHANGED <<mode, uid, cert, secrets, ready, pc, pass, aborts>>

RecreateCluster ==
  /\ ~alive /\ alive' = TRUE /\ uid' = uid + 1 /\ ready' = FALSE
  /\ UNCHANGED <<mode, cert, secrets, pc, pass, changes, aborts>>

Orphan(owner) == owner # 0 /\ ~(alive /\ owner = uid)

(* The garbage collector takes what a KahunaCluster that is gone has owned. *)
CollectPassword ==
  /\ Current.pw.there /\ Orphan(Current.pw.owner)
  /\ WritePassword([there |-> FALSE, value |-> NoPassword, owner |-> 0, version |-> 0])
  /\ UNCHANGED <<mode, alive, uid, cert, ready, pc, pass, changes, aborts>>

CollectCertificate ==
  /\ Orphan(cert) /\ cert' = 0
  /\ UNCHANGED <<mode, alive, uid, secrets, ready, pc, pass, changes, aborts>>

Collect == CollectPassword \/ CollectCertificate

Next ==
  \/ Pass \/ Abort \/ CacheCatchesUp \/ Issue \/ Renew \/ SupplyPassword \/ SupplyKeystore
  \/ DeleteCluster \/ RecreateCluster \/ Collect

Spec == Init /\ [][Next]_vars

(* Passes are requeued for ever, and the cache, cert-manager and the garbage collector work. *)
Fairness == WF_vars(Pass) /\ WF_vars(CacheCatchesUp) /\ WF_vars(Issue) /\ WF_vars(Collect)

FairSpec == Spec /\ Fairness
-----------------------------------------------------------------------------
(* The operator deletes a keystore only when cert-manager issued it for this Certificate and the
   password Secret has changed since, whatever the cache shows: a keystore that was reissued is
   never deleted for the same change again (replaceStaleKeystore). *)
NoNeedlessDelete ==
  [][pc = "replace" /\ Current.ks.there /\ ~Current'.ks.there =>
       Current.ks.issued /\ Current.ks.seal < Current.pw.version]_vars

(* Operator and cert-manager do not delete and issue the keystore in turns for ever: three writes for
   a keystore that was left behind, deleted and issued again, and four at most for each change that
   user or cert-manager make.  It takes four when the KahunaCluster is deleted in the middle of a
   pass: that pass generates a password that is collected, the next one another, and for each of
   them the keystore is deleted and issued (reconcileKeystorePassword, replaceStaleKeystore). *)
WritesPerChange == Current.ks.rv <= 3 + 4 * changes

(* A generated password stays for as long as the KahunaCluster that it was generated for, even when
   a pass reads a cache that does not have it yet (reconcileKeystorePassword). *)
PasswordKept ==
  [][mode = "generated" /\ Current.pw.there /\ ~Orphan(Current.pw.owner) => Current'.pw = Current.pw]_vars

(* A keystore that cert-manager issues ends up under the password of its Secret, whatever was left
   behind by an earlier cluster or changed by the user (replaceStaleKeystore). *)
Cured == <>[](alive /\ CertManager /\ Current.pw.there => Current.ks.issued /\ opensWith(Current.ks, Current.pw.value))

(* The keystore is there, and so is the password that opens it as the pods read it. *)
PodsCanStart ==
  /\ Current.ks.there /\ Current.ks.key
  /\ mode # "unprotected" => Current.pw.there /\ opensWith(Current.ks, Trimmed(Current.pw.value))

(* The KeystoreReady condition ends up saying whether the pods can open their keystore
   (certificateReady). *)
Reported == <>[](alive => (ready <=> PodsCanStart))
=============================================================================
