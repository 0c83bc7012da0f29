--------------------------- MODULE KeystoreProofs ---------------------------
(***************************************************************************)
(* What holds of keystores and passwords, and how often a keystore is      *)
(* written, for every source of both, every lag of the cache and every     *)
(* number of changes and aborted passes.                                   *)
(***************************************************************************)
EXTENDS Keystore, TLAPS

(* A keystore Secret, written any number of times. *)
AnyKeystores ==
  [there : BOOLEAN, key : BOOLEAN, opens : Passwords, seal : Nat, issued : BOOLEAN, rv : Nat]

Pairs == [ks : AnyKeystores, pw : PasswordSecrets]

(* A keystore was issued under a version the password Secret has reached; one issued under the
   version it is at opens with the password of that version. *)
Sealed(e) ==
  /\ e.ks.seal <= e.pw.version
  /\ e.ks.issued /\ e.ks.seal = e.pw.version => e.ks.opens = e.pw.value

(* From the cached state to the current one the password Secret only moves on, and one version of
   it is one Secret. *)
Chained(s) ==
  \A i, j \in 1 .. Len(s) : i <= j =>
    /\ s[i].pw.version <= s[j].pw.version
    /\ s[i].pw.version = s[j].pw.version => s[i].pw = s[j].pw

SecretsInv ==
  /\ secrets \in Seq(Pairs) /\ Len(secrets) > 0
  /\ Chained(secrets) /\ \A i \in 1 .. Len(secrets) : Sealed(secrets[i])

(* What the pass read: the keystore first, the password no earlier.  So the password is the one
   of the current version, or the keystore was sealed under an earlier one. *)
PassInv ==
  /\ pass \in [uid : Nat, ks : AnyKeystores, pw : Passwords, ready : BOOLEAN]
  /\ pc = "open" => pass.ks.seal <= Cached.pw.version
  /\ pc = "replace" => \/ pass.ks.seal < Current.pw.version
                       \/ pass.ks.seal = Current.pw.version /\ pass.pw = Current.pw.value

IInv == SecretsInv /\ PassInv /\ uid \in Nat
-----------------------------------------------------------------------------
(* The cached and the current state of the Secrets. *)
LEMMA Ends ==
  ASSUME SecretsInv
  PROVE  /\ Current \in Pairs /\ Cached \in Pairs
         /\ Cached.pw.version <= Current.pw.version
         /\ Cached.pw.version = Current.pw.version => Cached.pw = Current.pw
         /\ Sealed(Current) /\ Sealed(Cached)
  BY DEF SecretsInv, Chained, Current, Cached

(* A new state after the current one keeps the chain, if it keeps the password Secret or writes
   its next version. *)
LEMMA Appended ==
  ASSUME SecretsInv, NEW e \in Pairs, Sealed(e), secrets' = Append(secrets, e),
         e.pw = Current.pw \/ e.pw.version = Current.pw.version + 1
  PROVE  SecretsInv' /\ Current' = e /\ Cached' = Cached
<1>1. /\ Len(secrets') = Len(secrets) + 1 /\ secrets' \in Seq(Pairs) /\ Len(secrets) \in Nat \ {0}
      /\ \A i \in 1 .. Len(secrets) : secrets'[i] = secrets[i]
      /\ secrets'[Len(secrets) + 1] = e
  BY DEF SecretsInv
<1>2. \A i \in 1 .. Len(secrets) : secrets[i] \in Pairs
  BY DEF SecretsInv
<1>3. \A i \in 1 .. Len(secrets) :
        /\ secrets[i].pw.version <= Current.pw.version
        /\ secrets[i].pw.version = Current.pw.version => secrets[i].pw = Current.pw
  BY <1>1 DEF SecretsInv, Chained, Current
<1>4. Current.pw.version \in Nat /\ \A i \in 1 .. Len(secrets) : secrets[i].pw.version \in Nat
  BY <1>2, Ends DEF Pairs, PasswordSecrets
<1>5. \A i \in 1 .. Len(secrets) :
        /\ secrets[i].pw.version <= e.pw.version
        /\ secrets[i].pw.version = e.pw.version => secrets[i].pw = e.pw
  BY <1>3, <1>4
<1>6. Chained(secrets')
  <2> SUFFICES ASSUME NEW i \in 1 .. Len(secrets'), NEW j \in 1 .. Len(secrets'), i <= j
               PROVE  /\ secrets'[i].pw.version <= secrets'[j].pw.version
                      /\ secrets'[i].pw.version = secrets'[j].pw.version => secrets'[i].pw = secrets'[j].pw
    BY DEF Chained
  <2>1. CASE j \in 1 .. Len(secrets)
    <3>1. i \in 1 .. Len(secrets)
      BY <1>1, <2>1
    <3> QED  BY <1>1, <2>1, <3>1 DEF SecretsInv, Chained
  <2>2. CASE j = Len(secrets) + 1 /\ i \in 1 .. Len(secrets)
    BY <1>1, <1>5, <2>2
  <2>3. CASE j = Len(secrets) + 1 /\ i = Len(secrets) + 1
    BY <1>1, <2>3 DEF Pairs, PasswordSecrets
  <2> QED  BY <1>1, <2>1, <2>2, <2>3
<1>7. \A i \in 1 .. Len(secrets') : Sealed(secrets'[i])
  <2> TAKE i \in 1 .. Len(secrets')
  <2>1. CASE i \in 1 .. Len(secrets)
    BY <1>1, <2>1 DEF SecretsInv, Sealed
  <2>2. CASE i = Len(secrets) + 1
    BY <1>1, <2>2 DEF Sealed
  <2> QED  BY <1>1, <2>1, <2>2
<1>8. Current' = e /\ Cached' = Cached
  BY <1>1 DEF Current, Cached
<1> QED
  BY <1>1, <1>6, <1>7, <1>8 DEF SecretsInv, Chained, Sealed

(* The cache moves on to the next state, the current one stays. *)
LEMMA CaughtUp ==
  ASSUME SecretsInv, CacheCatchesUp
  PROVE  SecretsInv' /\ Current' = Current /\ Cached.pw.version <= Cached'.pw.version
<1>1. /\ Len(secrets') = Len(secrets) - 1 /\ secrets' \in Seq(Pairs) /\ Len(secrets) \in Nat
      /\ Len(secrets') > 0 /\ \A i \in 1 .. Len(secrets') : secrets'[i] = secrets[i + 1]
  BY DEF SecretsInv, CacheCatchesUp
<1>2. Current' = Current /\ Cached' = secrets[2]
  BY <1>1 DEF Current, Cached
<1>3. Chained(secrets')
  <2> SUFFICES ASSUME NEW i \in 1 .. Len(secrets'), NEW j \in 1 .. Len(secrets'), i <= j
               PROVE  /\ secrets'[i].pw.version <= secrets'[j].pw.version
                      /\ secrets'[i].pw.version = secrets'[j].pw.version => secrets'[i].pw = secrets'[j].pw
    BY DEF Chained
  <2>1. i + 1 \in 1 .. Len(secrets) /\ j + 1 \in 1 .. Len(secrets) /\ i + 1 <= j + 1
    BY <1>1
  <2>2. /\ secrets[i + 1].pw.version <= secrets[j + 1].pw.version
        /\ secrets[i + 1].pw.version = secrets[j + 1].pw.version => secrets[i + 1].pw = secrets[j + 1].pw
    BY <2>1 DEF SecretsInv, Chained
  <2> QED  BY <1>1, <2>2
<1>4. \A i \in 1 .. Len(secrets') : Sealed(secrets'[i])
  <2> TAKE i \in 1 .. Len(secrets')
  <2>1. i + 1 \in 1 .. Len(secrets) /\ secrets'[i] = secrets[i + 1]
    BY <1>1
  <2> QED  BY <2>1 DEF SecretsInv, Sealed
<1>5. Cached.pw.version <= secrets[2].pw.version
  BY <1>1 DEF SecretsInv, Chained, Cached
<1> QED
  BY <1>1, <1>2, <1>3, <1>4, <1>5 DEF SecretsInv, Chained, Sealed
-----------------------------------------------------------------------------
(* The types of what is written. *)
LEMMA WrittenTypes ==
  /\ \A rv \in Nat : NoKeystore(rv) \in AnyKeystores
  /\ NoPassword \in Passwords
  /\ NoPass \in [uid : Nat, ks : AnyKeystores, pw : Passwords, ready : BOOLEAN]
  BY DEF NoKeystore, AnyKeystores, NoPassword, Passwords, NoPass

(* A keystore that is written leaves the password Secret alone; unless it is issued under that
   Secret it is nobody's. *)
LEMMA KeystoreWritten ==
  ASSUME SecretsInv, NEW ks \in AnyKeystores, WriteKeystore(ks),
         ks = Issued \/ (~ks.issued /\ ks.seal = 0)
  PROVE  /\ SecretsInv' /\ Current'.pw = Current.pw /\ Cached' = Cached /\ Current'.ks.there = ks.there
         /\ secrets' = Append(secrets, Current')
         /\ Current'.ks = [ks EXCEPT !.rv = Current.ks.rv + 1]
<1> DEFINE k == [ks EXCEPT !.rv = Current.ks.rv + 1]
           e == [Current EXCEPT !.ks = k]
<1>1. Current \in Pairs /\ Current.ks.rv \in Nat
  BY Ends DEF Pairs, AnyKeystores
<1>2. /\ k \in AnyKeystores /\ k.issued = ks.issued /\ k.seal = ks.seal /\ k.opens = ks.opens
      /\ k.there = ks.there
  BY <1>1 DEF AnyKeystores
<1>3. e \in Pairs /\ e.pw = Current.pw /\ e.ks = k
  BY <1>1, <1>2 DEF Pairs
<1>4. secrets' = Append(secrets, e)
  BY DEF WriteKeystore
<1> HIDE DEF e, k
<1>5. Sealed(e)
  <2>1. Current.pw.version \in Nat
    BY <1>1 DEF Pairs, PasswordSecrets
  <2>2. CASE ks = Issued
    <3>1. ks.seal = Current.pw.version /\ ks.opens = Current.pw.value
      BY <2>2 DEF Issued
    <3> QED  BY <1>2, <1>3, <2>1, <3>1 DEF Sealed
  <2>3. CASE ~ks.issued /\ ks.seal = 0
    BY <1>2, <1>3, <2>1, <2>3 DEF Sealed
  <2> QED  BY <2>2, <2>3
<1>6. SecretsInv' /\ Current' = e /\ Cached' = Cached
  BY <1>2, <1>3, <1>4, <1>5, Appended
<1> QED
  BY <1>2, <1>3, <1>4, <1>6, Zenon DEF k

(* A password that is written is the next version of its Secret, which seals no keystore yet. *)
LEMMA PasswordWritten ==
  ASSUME SecretsInv, NEW pw \in PasswordSecrets, WritePassword(pw)
  PROVE  /\ SecretsInv' /\ Current'.ks = Current.ks /\ Cached' = Cached
         /\ Current'.pw.version = Current.pw.version + 1
         /\ secrets' = Append(secrets, Current')
         /\ Current'.pw = [pw EXCEPT !.version = Current.pw.version + 1]
<1> DEFINE w == [pw EXCEPT !.version = Current.pw.version + 1]
           e == [Current EXCEPT !.pw = w]
<1>1. Current \in Pairs /\ Current.pw.version \in Nat /\ Current.ks.seal \in Nat
  BY Ends DEF Pairs, PasswordSecrets, AnyKeystores
<1>2. w \in PasswordSecrets /\ w.version = Current.pw.version + 1
  BY <1>1 DEF PasswordSecrets
<1>3. e \in Pairs /\ e.ks = Current.ks /\ e.pw = w
  BY <1>1, <1>2 DEF Pairs
<1>4. secrets' = Append(secrets, e)
  BY DEF WritePassword
<1> HIDE DEF e, w
<1>5. Sealed(e)
  <2>1. Current.ks.seal <= Current.pw.version
    BY Ends DEF Sealed
  <2> QED  BY <1>1, <1>2, <1>3, <2>1 DEF Sealed
<1>6. SecretsInv' /\ Current' = e /\ Cached' = Cached
  BY <1>2, <1>3, <1>4, <1>5, Appended
<1> QED
  BY <1>2, <1>3, <1>4, <1>6, Zenon DEF w
-----------------------------------------------------------------------------
(* The three ways in which the Secrets move: not at all but in the cache, ... *)
Caches == Current' = Current /\ Cached.pw.version <= Cached'.pw.version

(* ... by a keystore that is written, or deleted by a pass that found it stale, ... *)
Keystores ==
  /\ Current'.pw = Current.pw /\ Cached' = Cached
  /\ Current'.ks.there \/ (replaceStaleKeystore /\ Stale /\ Preconditions(pass.ks))

(* ... or by a password that is written where a generated one is not in use. *)
PasswordMoves ==
  /\ Current'.ks = Current.ks /\ Cached' = Cached
  /\ Current'.pw.version = Current.pw.version + 1
  /\ mode # "generated" \/ ~Current.pw.there \/ Orphan(Current.pw.owner)

(* A step that leaves the Secrets alone. *)
LEMMA SecretsStay ==
  ASSUME IInv, UNCHANGED secrets
  PROVE  SecretsInv' /\ Caches
<1>1. Current' = Current /\ Cached' = Cached /\ Current \in Pairs /\ Cached \in Pairs
  BY Ends DEF Current, Cached, IInv
<1>2. Caches
  BY <1>1 DEF Caches, Pairs, PasswordSecrets
<1>3. SecretsInv'
  BY DEF IInv, SecretsInv, Chained, Sealed
<1> QED
  BY <1>2, <1>3

(* Every step of the operator, of cert-manager, the garbage collector and the user is one of the
   three. *)
LEMMA SecretsMove ==
  ASSUME IInv, [Next]_vars
  PROVE  SecretsInv' /\ (Caches \/ Keystores \/ PasswordMoves)
<1> USE DEF IInv
<1>0. Current \in Pairs /\ Current.pw \in PasswordSecrets /\ Current.pw.version \in Nat
  BY Ends DEF Pairs, PasswordSecrets
<1>1. CASE UNCHANGED secrets
  BY <1>1, SecretsStay
<1>2. CASE reconcileKeystorePassword /\ ~UNCHANGED secrets
  <2>1. WritePassword(Generated) /\ ~Current.pw.there
    BY <1>2 DEF reconcileKeystorePassword
  <2>2. Generated \in PasswordSecrets
    BY <1>0 DEF Generated, PasswordSecrets, Passwords, PassInv
  <2> QED  BY <2>1, <2>2, PasswordWritten, Zenon DEF PasswordMoves
<1>3. CASE replaceStaleKeystore /\ ~UNCHANGED secrets
  <2>1. WriteKeystore(NoKeystore(0)) /\ Stale /\ Preconditions(pass.ks)
    BY <1>3 DEF replaceStaleKeystore
  <2>2. NoKeystore(0) \in AnyKeystores /\ ~NoKeystore(0).issued /\ NoKeystore(0).seal = 0
    BY WrittenTypes DEF NoKeystore
  <2> QED  BY <1>3, <2>1, <2>2, KeystoreWritten, Zenon DEF Keystores
<1>4. CASE CacheCatchesUp
  BY <1>4, CaughtUp DEF Caches
<1>5. CASE Issue \/ Renew
  <2>1. WriteKeystore(Issued)
    BY <1>5 DEF Issue, Renew
  <2>2. Issued \in AnyKeystores /\ Issued.there
    BY <1>0 DEF Issued, AnyKeystores, PasswordSecrets
  <2> QED  BY <2>1, <2>2, KeystoreWritten, Zenon DEF Keystores
<1>6. CASE SupplyPassword
  <2>1. PICK i \in 1 .. 2, n \in BOOLEAN :
          WritePassword([there |-> TRUE, value |-> [id |-> i, newline |-> n], owner |-> 0, version |-> 0])
    BY <1>6, Zenon DEF SupplyPassword
  <2>2. [there |-> TRUE, value |-> [id |-> i, newline |-> n], owner |-> 0, version |-> 0] \in PasswordSecrets
    BY DEF PasswordSecrets, Passwords
  <2> QED  BY <1>6, <2>1, <2>2, PasswordWritten, Zenon DEF PasswordMoves, SupplyPassword
<1>7. CASE SupplyKeystore
  <2>1. PICK i \in 1 .. 2 :
          WriteKeystore([NoKeystore(0) EXCEPT !.there = TRUE, !.key = TRUE, !.opens = [id |-> i, newline |-> FALSE]])
    BY <1>7, Zenon DEF SupplyKeystore
  <2> DEFINE ks == [NoKeystore(0) EXCEPT !.there = TRUE, !.key = TRUE, !.opens = [id |-> i, newline |-> FALSE]]
  <2>2. ks \in AnyKeystores /\ ~ks.issued /\ ks.seal = 0 /\ ks.there
    <3>1. NoKeystore(0) \in AnyKeystores /\ ~NoKeystore(0).issued /\ NoKeystore(0).seal = 0
      BY WrittenTypes DEF NoKeystore
    <3>2. [id |-> i, newline |-> FALSE] \in Passwords
      BY DEF Passwords
    <3> QED  BY <3>1, <3>2, Zenon DEF AnyKeystores
  <2> HIDE DEF ks
  <2> QED  BY <2>1, <2>2, KeystoreWritten, Zenon DEF Keystores, ks
<1>8. CASE CollectPassword
  <2>1. WritePassword([there |-> FALSE, value |-> NoPassword, owner |-> 0, version |-> 0])
        /\ Orphan(Current.pw.owner)
    BY <1>8 DEF CollectPassword
  <2>2. [there |-> FALSE, value |-> NoPassword, owner |-> 0, version |-> 0] \in PasswordSecrets
    BY WrittenTypes DEF PasswordSecrets
  <2> QED  BY <2>1, <2>2, PasswordWritten, Zenon DEF PasswordMoves
<1> QED
  BY <1>1, <1>2, <1>3, <1>4, <1>5, <1>6, <1>7, <1>8
     DEF Next, Pass, certificateReady, Begin, reconcileCertificate, readKeystore, readPassword,
         KeystoreExists, TestKeystore, SaveStatus, Abort, DeleteCluster, RecreateCluster, Collect,
         CollectCertificate, vars
-----------------------------------------------------------------------------
(* The keystore that is found at first was sealed under no version of the password Secret. *)
LEMMA EarlierTypes ==
  ASSUME NEW ks \in EarlierKeystores
  PROVE  /\ ks \in AnyKeystores /\ ks.seal = 0
         /\ ks.rv \in {0, 1} /\ (ks.issued => CertManager)
<1>1. CASE ks = NoKeystore(0)
  BY <1>1, WrittenTypes DEF NoKeystore
<1>2. CASE ks # NoKeystore(0)
  <2>1. PICK k \in BOOLEAN, i \in 0 .. 1 :
          ks = [there |-> TRUE, key |-> k, opens |-> [id |-> i, newline |-> FALSE], seal |-> 0,
                issued |-> k /\ CertManager, rv |-> 1]
    BY <1>2 DEF EarlierKeystores
  <2>2. (k /\ CertManager) \in BOOLEAN /\ [id |-> i, newline |-> FALSE] \in Passwords
    BY DEF Passwords
  <2> QED  BY <2>1, <2>2, Zenon DEF AnyKeystores
<1> QED
  BY <1>1, <1>2

LEMMA InvInit == Init => IInv
<1> SUFFICES ASSUME Init PROVE IInv
  OBVIOUS
<1>1. PICK ks \in EarlierKeystores, pw \in PasswordSecrets :
        secrets = <<[ks |-> ks, pw |-> pw]>> /\ pw.version = 1
  <2> DEFINE none == [there |-> FALSE, value |-> NoPassword, owner |-> 0, version |-> 1]
  <2>1. none \in PasswordSecrets /\ none.version = 1
    BY WrittenTypes DEF PasswordSecrets
  <2>2. ASSUME NEW pw \in SuppliedSecret PROVE pw \in PasswordSecrets /\ pw.version = 1
    <3>1. PICK g \in BOOLEAN, n \in BOOLEAN :
            pw = [there |-> g, value |-> IF g THEN [id |-> 1, newline |-> n] ELSE NoPassword,
                  owner |-> 0, version |-> 1]
      BY KeystoreAssumption DEF SuppliedSecret
    <3>2. (IF g THEN [id |-> 1, newline |-> n] ELSE NoPassword) \in Passwords
      BY WrittenTypes DEF Passwords
    <3> QED  BY <3>1, <3>2 DEF PasswordSecrets
  <2>3. PICK ks \in EarlierKeystores, pw \in SuppliedSecret \cup {none} : secrets = <<[ks |-> ks, pw |-> pw]>>
    BY DEF Init
  <2> QED  BY <2>1, <2>2, <2>3, Zenon
<1>2. ks \in AnyKeystores /\ ks.seal = 0
  BY EarlierTypes
<1>3. [ks |-> ks, pw |-> pw] \in Pairs /\ Sealed([ks |-> ks, pw |-> pw])
  BY <1>1, <1>2 DEF Pairs, Sealed
<1>4. SecretsInv
  BY <1>1, <1>3 DEF SecretsInv, Chained, Pairs, PasswordSecrets
<1>5. PassInv
  BY WrittenTypes DEF Init, PassInv
<1> QED
  BY <1>4, <1>5 DEF IInv, Init

(* What the pass read keeps its place among the Secrets while they move. *)
LEMMA PassWaits ==
  ASSUME IInv, SecretsInv', Caches \/ Keystores \/ PasswordMoves, UNCHANGED <<pc, pass>>
  PROVE  PassInv'
<1>1. /\ Current.pw.version \in Nat /\ Cached.pw.version \in Nat /\ Cached'.pw.version \in Nat
      /\ pass.ks.seal \in Nat
  <2>1. Cached' \in Pairs
    BY DEF SecretsInv, Cached
  <2>2. Current \in Pairs /\ Cached \in Pairs
    BY Ends DEF IInv
  <2>3. pass.ks \in AnyKeystores
    BY DEF IInv, PassInv
  <2> QED  BY <2>1, <2>2, <2>3 DEF Pairs, PasswordSecrets, AnyKeystores
<1>2. Cached.pw.version <= Cached'.pw.version
  BY <1>1 DEF Caches, Keystores, PasswordMoves
<1>3. Current'.pw = Current.pw \/ Current'.pw.version = Current.pw.version + 1
  BY DEF Caches, Keystores, PasswordMoves
<1>4. pc = "open" => pass.ks.seal <= Cached'.pw.version
  BY <1>1, <1>2 DEF IInv, PassInv
<1>5. pc = "replace" => \/ pass.ks.seal < Current'.pw.version
                        \/ pass.ks.seal = Current'.pw.version /\ pass.pw = Current'.pw.value
  BY <1>1, <1>3 DEF IInv, PassInv
<1> QED
  BY <1>4, <1>5 DEF IInv, PassInv

(* What the pass knows when it takes a step of its own. *)
LEMMA PassReads ==
  ASSUME IInv, SecretsInv', Pass \/ Abort
  PROVE  PassInv'
<1> DEFINE T == [uid : Nat, ks : AnyKeystores, pw : Passwords, ready : BOOLEAN]
<1>1. /\ pass \in T /\ Cached \in Pairs /\ Current \in Pairs /\ uid \in Nat
      /\ Cached.ks \in AnyKeystores /\ Cached.pw.value \in Passwords
      /\ Cached.ks.seal \in Nat /\ Cached.pw.version \in Nat /\ Current.pw.version \in Nat
  BY Ends DEF IInv, PassInv, Pairs, PasswordSecrets, AnyKeystores
<1>2. CASE pc' \notin {"open", "replace"} /\ pass' \in T
  BY <1>2 DEF PassInv
<1>3. CASE readKeystore("keystore", "open", "exists") /\ pc' = "open"
  <2>1. pass' = [pass EXCEPT !.ks = Cached.ks] /\ Cached' = Cached
    BY <1>3 DEF readKeystore, Cached
  <2>2. pass' \in T /\ pass'.ks.seal <= Cached'.pw.version
    BY <1>1, <2>1, Ends DEF IInv, Sealed
  <2> QED  BY <1>3, <2>2 DEF PassInv
<1>4. CASE readPassword("open", "replace", "exists") /\ pc' = "replace"
  <2>1. /\ pass' = [pass EXCEPT !.pw = Cached.pw.value] /\ Current' = Current
        /\ pass.ks.seal <= Cached.pw.version
    BY <1>4 DEF readPassword, Current, IInv, PassInv
  <2>2. pass' \in T /\ pass'.ks.seal = pass.ks.seal /\ pass'.pw = Cached.pw.value /\ pass.ks.seal \in Nat
    BY <1>1, <2>1 DEF AnyKeystores
  <2>3. \/ pass'.ks.seal < Current'.pw.version
        \/ pass'.ks.seal = Current'.pw.version /\ pass'.pw = Current'.pw.value
    BY <1>1, <2>1, <2>2, Ends DEF IInv
  <2> QED  BY <1>4, <2>2, <2>3 DEF PassInv
<1>5. Ready \in BOOLEAN
  BY DEF Ready, opensWith
<1> QED
  BY <1>1, <1>2, <1>3, <1>4, <1>5, WrittenTypes, Zenon
     DEF Pass, Abort, Begin, reconcileKeystorePassword, reconcileCertificate, readKeystore,
         readPassword, replaceStaleKeystore, certificateReady, KeystoreExists, TestKeystore, SaveStatus

(* Every step keeps the invariant. *)
LEMMA InvNext == IInv /\ [Next]_vars => IInv'
<1> SUFFICES ASSUME IInv, [Next]_vars PROVE IInv'
  OBVIOUS
<1>1. SecretsInv' /\ (Caches \/ Keystores \/ PasswordMoves)
  BY SecretsMove
<1>2. CASE Pass \/ Abort
  <2>1. PassInv'
    BY <1>1, <1>2, PassReads
  <2>2. UNCHANGED uid
    BY <1>2 DEF Pass, Abort, Begin, reconcileKeystorePassword, reconcileCertificate, readKeystore,
         readPassword, replaceStaleKeystore, certificateReady, KeystoreExists, TestKeystore, SaveStatus
  <2> QED  BY <1>1, <2>1, <2>2 DEF IInv
<1>3. CASE ~(Pass \/ Abort)
  <2>1. UNCHANGED <<pc, pass>> /\ uid' \in Nat
    BY <1>3 DEF IInv, Next, CacheCatchesUp, Issue, Renew, SupplyPassword, SupplyKeystore, DeleteCluster,
         RecreateCluster, Collect, CollectPassword, CollectCertificate, vars
  <2>2. PassInv'
    BY <1>1, <2>1, PassWaits
  <2> QED  BY <1>1, <2>1, <2>2 DEF IInv
<1> QED
  BY <1>2, <1>3
-----------------------------------------------------------------------------
(* A keystore is deleted only when cert-manager issued it for this Certificate and the password
   Secret has changed since, whatever the cache shows (replaceStaleKeystore). *)
THEOREM DeletesWithCause == Spec => NoNeedlessDelete
<1> DEFINE Cause == pc = "replace" /\ Current.ks.there /\ ~Current'.ks.there =>
                      Current.ks.issued /\ Current.ks.seal < Current.pw.version
<1>1. IInv /\ [Next]_vars => [Cause]_vars
  <2> SUFFICES ASSUME IInv, [Next]_vars, pc = "replace", Current.ks.there, ~Current'.ks.there
               PROVE  Current.ks.issued /\ Current.ks.seal < Current.pw.version
    OBVIOUS
  <2>1. Stale /\ Current.ks = pass.ks
    BY SecretsMove DEF Caches, Keystores, PasswordMoves, Preconditions
  <2>2. Sealed(Current)
    BY Ends DEF IInv
  <2> QED  BY <2>1, <2>2 DEF Stale, opensWith, Sealed, IInv, PassInv
<1> QED
  BY InvInit, InvNext, <1>1, PTL DEF Spec, NoNeedlessDelete

(* A generated password stays for as long as the KahunaCluster it was generated for, even when a
   pass reads a cache that does not have it yet (reconcileKeystorePassword). *)
THEOREM PasswordIsKept == Spec => PasswordKept
<1> DEFINE Kept == mode = "generated" /\ Current.pw.there /\ ~Orphan(Current.pw.owner) =>
                     Current'.pw = Current.pw
<1>1. IInv /\ [Next]_vars => [Kept]_vars
  BY SecretsMove DEF Caches, Keystores, PasswordMoves
<1> QED
  BY InvInit, InvNext, <1>1, PTL DEF Spec, PasswordKept
-----------------------------------------------------------------------------
(* How often the keystore is written. *)

(* How many KahunaClusters of this name have been deleted. *)
Deletions == uid - 1 + (IF alive THEN 0 ELSE 1)

(* The types of what is no Secret; every KahunaCluster that was deleted is a change. *)
PlainTypes ==
  /\ mode \in Modes /\ alive \in BOOLEAN /\ uid \in Nat \ {0} /\ cert \in 0 .. uid /\ ready \in BOOLEAN
  /\ pc \in {"idle", "password", "certificate", "keystore", "open", "replace", "exists",
             "material", "secret", "test", "save"}
  /\ pass.uid \in 0 .. uid /\ (pc # "idle" => pass.uid # 0)
  /\ changes \in 0 .. MaxChanges /\ aborts \in 0 .. MaxAborts
  /\ Deletions \in 0 .. changes

LEMMA PlainInit == Init => PlainTypes
<1> SUFFICES ASSUME Init PROVE PlainTypes
  OBVIOUS
<1>1. alive \in BOOLEAN /\ ready \in BOOLEAN /\ Deletions = 0
  <2>1. alive /\ alive \in BOOLEAN /\ ready \in BOOLEAN
    BY Zenon DEF Init
  <2>2. uid = 1
    BY DEF Init
  <2> QED  BY <2>1, <2>2 DEF Deletions
<1>2. pass.uid = 0
  BY DEF Init, NoPass
<1> QED
  BY <1>1, <1>2, KeystoreAssumption DEF Init, PlainTypes

(* The steps that leave the KahunaCluster and the changes alone. *)
LEMMA PlainPass ==
  ASSUME IInv, PlainTypes, Pass \/ Abort
  PROVE  PlainTypes' /\ UNCHANGED <<mode, alive, uid, changes>> /\ Deletions' = Deletions
<1> USE KeystoreAssumption
<1>0. NoPass.uid = 0
  BY DEF NoPass
<1>1. UNCHANGED <<mode, alive, uid, changes>>
  BY DEF Pass, Abort, Begin, reconcileKeystorePassword, reconcileCertificate, readKeystore,
         readPassword, replaceStaleKeystore, certificateReady, KeystoreExists, TestKeystore, SaveStatus
<1>2. Deletions' = Deletions
  BY <1>1 DEF Deletions
<1>3. pass.ready \in BOOLEAN /\ pass \in [uid : Nat, ks : AnyKeystores, pw : Passwords, ready : BOOLEAN]
  BY DEF IInv, PassInv
<1>4. CASE Begin
  <2>1. pass'.uid = uid
    BY <1>4 DEF Begin, NoPass
  <2> QED  BY <1>1, <1>2, <1>4, <2>1 DEF Begin, PlainTypes
<1>5. CASE reconcileKeystorePassword
  BY <1>1, <1>2, <1>5 DEF reconcileKeystorePassword, PlainTypes
<1>6. CASE reconcileCertificate
  BY <1>1, <1>2, <1>6 DEF reconcileCertificate, PlainTypes
<1>7. ASSUME NEW from, NEW found, NEW missing, readKeystore(from, found, missing) \/ readPassword(from, found, missing),
             from \in {"keystore", "open", "material", "secret"},
             found \in {"open", "replace", "secret", "test"}, missing \in {"exists", "save"}
      PROVE  PlainTypes'
  <2>1. pass'.uid = pass.uid /\ pc' \in {found, missing} /\ pc = from
    BY <1>3, <1>7 DEF readKeystore, readPassword
  <2>2. UNCHANGED <<cert, ready, aborts>>
    BY <1>7 DEF readKeystore, readPassword
  <2> QED  BY <1>1, <1>2, <1>7, <2>1, <2>2 DEF PlainTypes
<1>8. CASE replaceStaleKeystore
  BY <1>1, <1>2, <1>8 DEF replaceStaleKeystore, PlainTypes
<1>9. CASE KeystoreExists \/ TestKeystore
  <2>1. pass'.uid = pass.uid /\ pc' \in {"material", "save"} /\ UNCHANGED <<cert, ready, aborts>> /\ pc # "idle"
    BY <1>3, <1>9 DEF KeystoreExists, TestKeystore
  <2> QED  BY <1>1, <1>2, <2>1 DEF PlainTypes
<1>10. CASE SaveStatus
  BY <1>0, <1>1, <1>2, <1>3, <1>10 DEF SaveStatus, PlainTypes
<1>11. CASE Abort
  BY <1>0, <1>1, <1>2, <1>11 DEF Abort, PlainTypes
<1> QED
  BY <1>1, <1>2, <1>4, <1>5, <1>6, <1>7, <1>8, <1>9, <1>10, <1>11 DEF Pass, certificateReady

LEMMA PlainNext ==
  ASSUME IInv, PlainTypes, [Next]_vars
  PROVE  /\ PlainTypes' /\ mode' = mode /\ changes <= changes' /\ Deletions <= Deletions'
         /\ changes - Deletions <= changes' - Deletions'
<1> USE KeystoreAssumption
<1>0. Deletions \in Nat /\ changes \in Nat
  BY DEF Deletions, PlainTypes
<1>1. CASE Pass \/ Abort
  BY <1>0, <1>1, PlainPass
<1>2. CASE CacheCatchesUp \/ Issue \/ CollectPassword \/ UNCHANGED vars
  <2>1. UNCHANGED <<mode, alive, uid, cert, ready, pc, pass, changes, aborts>>
    BY <1>2 DEF CacheCatchesUp, Issue, CollectPassword, vars
  <2> QED  BY <1>0, <2>1 DEF PlainTypes, Deletions
<1>3. CASE Renew \/ SupplyPassword \/ SupplyKeystore
  <2>1. UNCHANGED <<mode, alive, uid, cert, ready, pc, pass, aborts>> /\ Change
    BY <1>3 DEF Renew, SupplyPassword, SupplyKeystore
  <2> QED  BY <1>0, <2>1 DEF Change, PlainTypes, Deletions
<1>4. CASE DeleteCluster
  <2>1. Deletions' = Deletions + 1
    BY <1>4 DEF DeleteCluster, Deletions, PlainTypes
  <2>2. alive' \in BOOLEAN
    BY <1>4, Zenon DEF DeleteCluster
  <2> QED  BY <1>0, <1>4, <2>1, <2>2 DEF DeleteCluster, Change, PlainTypes
<1>5. CASE RecreateCluster
  <2>1. Deletions' = Deletions
    BY <1>5 DEF RecreateCluster, Deletions, PlainTypes
  <2>2. alive' \in BOOLEAN /\ ready' \in BOOLEAN
    BY <1>5, Zenon DEF RecreateCluster
  <2> QED  BY <1>0, <1>5, <2>1, <2>2 DEF RecreateCluster, PlainTypes
<1>6. CASE CollectCertificate
  BY <1>0, <1>6 DEF CollectCertificate, PlainTypes, Deletions
<1> QED
  BY <1>1, <1>2, <1>3, <1>4, <1>5, <1>6 DEF Next, Collect

(* A keystore is deleted, issued or supplied ... *)
KeystoreStep ==
  /\ secrets' = Append(secrets, Current') /\ Current' \in Pairs
  /\ Current'.pw = Current.pw /\ Current'.ks.rv = Current.ks.rv + 1
  /\ \/ /\ replaceStaleKeystore /\ Stale /\ Preconditions(pass.ks)
        /\ ~Current'.ks.issued /\ Current'.ks.seal = 0
     \/ /\ Issue \/ Renew
        /\ Current'.ks.issued /\ Current'.ks.seal = Current.pw.version /\ Current'.ks.opens = Current.pw.value
     \/ SupplyKeystore /\ ~Current'.ks.issued /\ Current'.ks.seal = 0

(* ... or a password is generated, supplied or collected. *)
PasswordStep ==
  /\ secrets' = Append(secrets, Current') /\ Current' \in Pairs
  /\ Current'.ks = Current.ks /\ Current'.pw.version = Current.pw.version + 1
  /\ \/ /\ reconcileKeystorePassword /\ mode = "generated" /\ ~Current.pw.there
        /\ Current'.pw.there /\ Current'.pw.owner = pass.uid
        /\ Current'.pw.value = [id |-> Current.pw.version + 1, newline |-> FALSE]
     \/ SupplyPassword /\ Current'.pw.owner = 0
     \/ CollectPassword /\ ~Current'.pw.there /\ Current'.pw.owner = 0

LEMMA CurrentMoves ==
  ASSUME IInv, [Next]_vars
  PROVE  Current' \in Pairs /\ Sealed(Current')
<1>1. /\ secrets' \in Seq(Pairs) /\ Len(secrets') > 0
      /\ \A i \in 1 .. Len(secrets') : Sealed(secrets'[i])
  BY SecretsMove DEF SecretsInv, Sealed
<1>2. Len(secrets') \in 1 .. Len(secrets')
  BY <1>1
<1> QED
  BY <1>1, <1>2 DEF Current, Sealed

LEMMA SecretsStep ==
  ASSUME IInv, [Next]_vars
  PROVE  \/ Current' = Current /\ (UNCHANGED secrets \/ CacheCatchesUp)
         \/ KeystoreStep \/ PasswordStep
<1>0. SecretsInv /\ Current \in Pairs /\ Current.pw \in PasswordSecrets /\ Current.pw.version \in Nat
      /\ Current.ks.rv \in Nat /\ pass.uid \in Nat
  BY Ends DEF IInv, PassInv, Pairs, PasswordSecrets, AnyKeystores
<1>a. Current' \in Pairs
  BY CurrentMoves
<1>1. CASE UNCHANGED secrets
  BY <1>1 DEF Current
<1>2. CASE CacheCatchesUp
  BY <1>0, <1>2, CaughtUp
<1>3. CASE replaceStaleKeystore /\ ~UNCHANGED secrets
  <2>1. WriteKeystore(NoKeystore(0)) /\ Stale /\ Preconditions(pass.ks)
    BY <1>3 DEF replaceStaleKeystore
  <2>2. NoKeystore(0) \in AnyKeystores /\ ~NoKeystore(0).issued /\ NoKeystore(0).seal = 0
    BY WrittenTypes DEF NoKeystore
  <2>3. /\ secrets' = Append(secrets, Current') /\ Current'.pw = Current.pw
        /\ Current'.ks = [NoKeystore(0) EXCEPT !.rv = Current.ks.rv + 1]
    BY <1>0, <2>1, <2>2, KeystoreWritten
  <2>4. Current'.ks.rv = Current.ks.rv + 1 /\ ~Current'.ks.issued /\ Current'.ks.seal = 0
    BY <2>2, <2>3 DEF AnyKeystores
  <2> QED  BY <1>3, <1>a, <2>1, <2>3, <2>4 DEF KeystoreStep
<1>4. CASE Issue \/ Renew
  <2>1. WriteKeystore(Issued)
    BY <1>4 DEF Issue, Renew
  <2>2. /\ Issued \in AnyKeystores /\ Issued.issued
        /\ Issued.seal = Current.pw.version /\ Issued.opens = Current.pw.value
    BY <1>0 DEF Issued, AnyKeystores, PasswordSecrets
  <2>3. /\ secrets' = Append(secrets, Current') /\ Current'.pw = Current.pw
        /\ Current'.ks = [Issued EXCEPT !.rv = Current.ks.rv + 1]
    BY <1>0, <2>1, <2>2, KeystoreWritten
  <2>4. /\ Current'.ks.rv = Current.ks.rv + 1 /\ Current'.ks.issued
        /\ Current'.ks.seal = Current.pw.version /\ Current'.ks.opens = Current.pw.value
    BY <2>2, <2>3 DEF AnyKeystores
  <2> QED  BY <1>4, <1>a, <2>3, <2>4 DEF KeystoreStep
<1>5. CASE SupplyKeystore
  <2>1. PICK i \in 1 .. 2 :
          WriteKeystore([NoKeystore(0) EXCEPT !.there = TRUE, !.key = TRUE, !.opens = [id |-> i, newline |-> FALSE]])
    BY <1>5, Zenon DEF SupplyKeystore
  <2> DEFINE ks == [NoKeystore(0) EXCEPT !.there = TRUE, !.key = TRUE, !.opens = [id |-> i, newline |-> FALSE]]
  <2>2. ks \in AnyKeystores /\ ~ks.issued /\ ks.seal = 0
    <3>1. NoKeystore(0) \in AnyKeystores /\ ~NoKeystore(0).issued /\ NoKeystore(0).seal = 0
      BY WrittenTypes DEF NoKeystore
    <3>2. [id |-> i, newline |-> FALSE] \in Passwords
      BY DEF Passwords
    <3> QED  BY <3>1, <3>2, Zenon DEF AnyKeystores
  <2>3. WriteKeystore(ks)
    BY <2>1
  <2> HIDE DEF ks
  <2>4. /\ secrets' = Append(secrets, Current') /\ Current'.pw = Current.pw
        /\ Current'.ks = [ks EXCEPT !.rv = Current.ks.rv + 1]
    BY <1>0, <2>2, <2>3, KeystoreWritten
  <2>5. Current'.ks.rv = Current.ks.rv + 1 /\ ~Current'.ks.issued /\ Current'.ks.seal = 0
    BY <2>2, <2>4 DEF AnyKeystores
  <2> QED  BY <1>5, <1>a, <2>4, <2>5 DEF KeystoreStep
<1>6. CASE reconcileKeystorePassword /\ ~UNCHANGED secrets
  <2>1. WritePassword(Generated) /\ ~Current.pw.there /\ mode = "generated"
    BY <1>6 DEF reconcileKeystorePassword
  <2>2. /\ Generated \in PasswordSecrets /\ Generated.there /\ Generated.owner = pass.uid
        /\ Generated.value = [id |-> Current.pw.version + 1, newline |-> FALSE]
    BY <1>0 DEF Generated, PasswordSecrets, Passwords
  <2>3. /\ secrets' = Append(secrets, Current') /\ Current'.ks = Current.ks
        /\ Current'.pw.version = Current.pw.version + 1
        /\ Current'.pw = [Generated EXCEPT !.version = Current.pw.version + 1]
    BY <1>0, <2>1, <2>2, PasswordWritten
  <2>4. /\ Current'.pw.there /\ Current'.pw.owner = pass.uid
        /\ Current'.pw.value = [id |-> Current.pw.version + 1, newline |-> FALSE]
    BY <2>2, <2>3 DEF PasswordSecrets
  <2> QED  BY <1>6, <1>a, <2>1, <2>3, <2>4 DEF PasswordStep
<1>7. CASE SupplyPassword
  <2>1. PICK i \in 1 .. 2, n \in BOOLEAN :
          WritePassword([there |-> TRUE, value |-> [id |-> i, newline |-> n], owner |-> 0, version |-> 0])
    BY <1>7, Zenon DEF SupplyPassword
  <2> DEFINE pw == [there |-> TRUE, value |-> [id |-> i, newline |-> n], owner |-> 0, version |-> 0]
  <2>2. pw \in PasswordSecrets /\ pw.owner = 0
    BY DEF PasswordSecrets, Passwords
  <2>3. WritePassword(pw)
    BY <2>1
  <2> HIDE DEF pw
  <2>4. /\ secrets' = Append(secrets, Current') /\ Current'.ks = Current.ks
        /\ Current'.pw.version = Current.pw.version + 1
        /\ Current'.pw = [pw EXCEPT !.version = Current.pw.version + 1]
    BY <1>0, <2>2, <2>3, PasswordWritten
  <2>5. Current'.pw.owner = 0
    BY <2>2, <2>4 DEF PasswordSecrets
  <2> QED  BY <1>7, <1>a, <2>4, <2>5 DEF PasswordStep
<1>8. CASE CollectPassword
  <2> DEFINE pw == [there |-> FALSE, value |-> NoPassword, owner |-> 0, version |-> 0]
  <2>1. WritePassword(pw)
    BY <1>8 DEF CollectPassword
  <2>2. pw \in PasswordSecrets /\ pw.owner = 0 /\ ~pw.there
    BY WrittenTypes DEF PasswordSecrets
  <2> HIDE DEF pw
  <2>4. /\ secrets' = Append(secrets, Current') /\ Current'.ks = Current.ks
        /\ Current'.pw.version = Current.pw.version + 1
        /\ Current'.pw = [pw EXCEPT !.version = Current.pw.version + 1]
    BY <1>0, <2>1, <2>2, PasswordWritten
  <2>5. Current'.pw.owner = 0 /\ ~Current'.pw.there
    BY <2>2, <2>4 DEF PasswordSecrets
  <2> QED  BY <1>8, <1>a, <2>4, <2>5 DEF PasswordStep
<1> QED
  BY <1>1, <1>2, <1>3, <1>4, <1>5, <1>6, <1>7, <1>8
     DEF Next, Pass, certificateReady, Begin, reconcileCertificate, readKeystore, readPassword,
         KeystoreExists, TestKeystore, SaveStatus, Abort, DeleteCluster, RecreateCluster, Collect,
         CollectCertificate, vars

(* A pass that may still generate a password for a KahunaCluster that is gone: the password, and
   its collection. *)
Belated == IF pc = "password" /\ Orphan(pass.uid) THEN 2 ELSE 0

(* How often the password Secret can be written before another KahunaCluster is deleted. *)
PasswordsAhead ==
  IF ~Current.pw.there THEN 1 + Belated
  ELSE IF Orphan(Current.pw.owner) THEN 2 + Belated ELSE 0

VersionInv ==
  IF mode = "generated"
  THEN /\ Current.pw.there => Current.pw.owner \in 1 .. uid
       /\ Current.pw.version + PasswordsAhead <= 2 + 4 * Deletions
  ELSE Current.pw.owner = 0 /\ Current.pw.version <= 1 + changes

LEMMA AheadTypes ==
  ASSUME IInv, PlainTypes
  PROVE  /\ Current.pw.version \in Nat /\ Current.pw.there \in BOOLEAN /\ Current.pw.owner \in Nat
         /\ Belated \in {0, 2} /\ PasswordsAhead \in 0 .. 4 /\ Deletions \in Nat /\ changes \in Nat
<1>1. Current.pw \in PasswordSecrets
  BY Ends DEF IInv, Pairs
<1>2. Belated \in {0, 2}
  BY DEF Belated
<1>3. PasswordsAhead \in 0 .. 4
  BY <1>2 DEF PasswordsAhead
<1> QED
  BY <1>1, <1>2, <1>3, KeystoreAssumption DEF PasswordSecrets, Deletions, PlainTypes

LEMMA AheadLess ==
  ASSUME Belated \in {0, 2}, Belated' \in {0, 2}, Belated' <= Belated, Current'.pw = Current.pw,
         Current.pw.there \in BOOLEAN,
         NEW was \in BOOLEAN, was <=> Orphan(Current.pw.owner),
         NEW is \in BOOLEAN, is <=> (Current.pw.owner # 0 /\ ~(alive' /\ Current.pw.owner = uid')),
         Current.pw.there /\ is => was
  PROVE  PasswordsAhead' <= PasswordsAhead
<1>1. PasswordsAhead = IF ~Current.pw.there THEN 1 + Belated ELSE IF was THEN 2 + Belated ELSE 0
  BY DEF PasswordsAhead
<1>2. PasswordsAhead' = IF ~Current.pw.there THEN 1 + Belated' ELSE IF is THEN 2 + Belated' ELSE 0
  BY Zenon DEF PasswordsAhead, Orphan
<1>3. ASSUME NEW b \in {0, 2}, NEW c \in {0, 2}, c <= b, NEW t \in BOOLEAN, NEW v \in BOOLEAN, NEW w \in BOOLEAN,
             t /\ v => w
      PROVE  (IF ~t THEN 1 + c ELSE IF v THEN 2 + c ELSE 0) <= (IF ~t THEN 1 + b ELSE IF w THEN 2 + b ELSE 0)
  BY <1>3
<1> QED
  BY <1>1, <1>2, <1>3, Zenon

(* The password Secret is written when that was ahead, and only the end of a KahunaCluster puts
   more ahead. *)
LEMMA VersionNext ==
  ASSUME IInv, PlainTypes, VersionInv, [Next]_vars
  PROVE  VersionInv'
<1>0. PlainTypes' /\ mode' = mode /\ changes <= changes' /\ Deletions <= Deletions' /\ IInv'
  BY PlainNext, InvNext
<1>1. /\ Current.pw.version \in Nat /\ Current.pw.there \in BOOLEAN /\ Current.pw.owner \in Nat
      /\ Belated \in {0, 2} /\ PasswordsAhead \in 0 .. 4 /\ Deletions \in Nat /\ changes \in Nat
  BY AheadTypes
<1>2. changes' \in Nat /\ Deletions' \in Nat /\ Belated' \in {0, 2} /\ PasswordsAhead' \in 0 .. 4
  <2>1. changes' \in Nat /\ Deletions' \in Nat
    BY <1>0, KeystoreAssumption DEF PlainTypes
  <2>2. Belated' \in {0, 2}
    BY DEF Belated
  <2>3. PasswordsAhead' \in 0 .. 4
    <3>1. PICK b \in {0, 2} : b = Belated'
      BY <2>2
    <3>2. PasswordsAhead' \in {1 + b, 2 + b, 0}
      BY <3>1 DEF PasswordsAhead
    <3> QED  BY <3>2
  <2> QED  BY <2>1, <2>2, <2>3
<1>3. CASE mode # "generated"
  <2>1. CASE Current'.pw = Current.pw
    BY <1>0, <1>1, <1>2, <1>3, <2>1 DEF VersionInv
  <2>2. CASE SupplyPassword /\ PasswordStep
    <3>1. Current'.pw.owner = 0 /\ Current'.pw.version = Current.pw.version + 1 /\ changes' = changes + 1
      <4>1. Current.pw.owner = 0
        BY <1>3 DEF VersionInv
      <4>2. ~CollectPassword
        BY <4>1 DEF CollectPassword, Orphan
      <4> QED  BY <1>3, <2>2, <4>2 DEF PasswordStep, SupplyPassword, Change
    <3> QED  BY <1>0, <1>1, <1>2, <1>3, <3>1 DEF VersionInv
  <2>3. CASE CollectPassword
    BY <1>3, <2>3 DEF VersionInv, CollectPassword, Orphan
  <2> QED  BY <1>3, <2>1, <2>2, <2>3, SecretsStep DEF KeystoreStep, PasswordStep
<1>4. CASE mode = "generated" /\ Current'.pw = Current.pw
  <2>1. CASE UNCHANGED <<alive, uid>> /\ Belated' <= Belated
    <3>1. Deletions' = Deletions
      BY <2>1 DEF Deletions
    <3>2. PasswordsAhead' <= PasswordsAhead
      <4>1. Orphan(Current.pw.owner) <=> (Current.pw.owner # 0 /\ ~(alive' /\ Current.pw.owner = uid'))
        BY <2>1 DEF Orphan
      <4> QED  BY <1>1, <1>2, <1>4, <2>1, <4>1, AheadLess, Zenon
    <3> QED  BY <1>0, <1>1, <1>2, <1>4, <2>1, <3>1, <3>2 DEF VersionInv
  <2>2. CASE DeleteCluster
    <3>1. Deletions' = Deletions + 1 /\ uid' = uid
      BY <2>2 DEF DeleteCluster, Deletions, PlainTypes
    <3>2. PasswordsAhead' <= PasswordsAhead + 4
      BY <1>1, <1>2
    <3> QED  BY <1>0, <1>1, <1>2, <1>4, <3>1, <3>2 DEF VersionInv
  <2>3. CASE RecreateCluster
    <3>1. Deletions' = Deletions /\ uid' = uid + 1 /\ UNCHANGED <<pc, pass>> /\ ~alive
      BY <2>3 DEF RecreateCluster, Deletions, PlainTypes
    <3>2. Orphan(pass.uid)' => Orphan(pass.uid)
      BY <3>1 DEF Orphan, PlainTypes
    <3>3. Belated' <= Belated
      BY <3>1, <3>2 DEF Belated
    <3>4. Current.pw.there => Orphan(Current.pw.owner)
      BY <1>4, <3>1 DEF VersionInv, Orphan
    <3>5. PasswordsAhead' <= PasswordsAhead
      BY <1>1, <1>2, <1>4, <3>3, <3>4, AheadLess, Zenon
    <3> QED  BY <1>0, <1>1, <1>2, <1>4, <3>1, <3>5 DEF VersionInv, PlainTypes
  <2>4. CASE Begin
    <3>1. UNCHANGED <<alive, uid>> /\ ~Orphan(pass.uid)'
      BY <2>4 DEF Begin, NoPass, Orphan
    <3>2. Belated' = 0
      BY <3>1 DEF Belated
    <3> QED  BY <1>1, <2>1, <3>1, <3>2
  <2>5. CASE (Pass \/ Abort) /\ ~Begin
    <3>1. pc' # "password" /\ UNCHANGED <<alive, uid>>
      BY <2>5 DEF Pass, Abort, reconcileKeystorePassword, reconcileCertificate, readKeystore,
         readPassword, replaceStaleKeystore, certificateReady, KeystoreExists, TestKeystore, SaveStatus
    <3>2. Belated' = 0
      BY <3>1 DEF Belated
    <3> QED  BY <1>1, <2>1, <3>1, <3>2
  <2>6. CASE UNCHANGED <<alive, uid, pc, pass>>
    <3>1. Belated' = Belated
      BY <2>6 DEF Belated, Orphan
    <3> QED  BY <1>1, <2>1, <2>6, <3>1
  <2> QED
    BY <2>2, <2>3, <2>4, <2>5, <2>6
       DEF Next, CacheCatchesUp, Issue, Renew, SupplyPassword, SupplyKeystore, Collect, CollectPassword,
           CollectCertificate, vars
<1>5. CASE reconcileKeystorePassword /\ PasswordStep /\ ~Current.pw.there /\ mode = "generated"
  <2>1. /\ Current'.pw.there /\ Current'.pw.owner = pass.uid /\ Current'.pw.version = Current.pw.version + 1
        /\ pc = "password" /\ pc' # "password" /\ UNCHANGED <<alive, uid>>
    BY <1>5 DEF PasswordStep, reconcileKeystorePassword, SupplyPassword, CollectPassword
  <2>2. Belated' = 0 /\ Deletions' = Deletions
    BY <2>1 DEF Belated, Deletions
  <2>3. PasswordsAhead' <= PasswordsAhead - 1
    <3>1. CASE Orphan(pass.uid)
      BY <1>5, <2>1, <2>2, <3>1 DEF PasswordsAhead, Belated
    <3>2. CASE ~Orphan(pass.uid)
      <4>1. ~Orphan(Current.pw.owner)'
        BY <2>1, <3>2 DEF Orphan
      <4> QED  BY <1>5, <2>1, <3>2, <4>1 DEF PasswordsAhead, Belated
    <3> QED  BY <3>1, <3>2
  <2>4. pass.uid \in 1 .. uid
    BY <2>1 DEF PlainTypes
  <2> QED  BY <1>0, <1>1, <1>2, <1>5, <2>1, <2>2, <2>3, <2>4 DEF VersionInv
<1>6. CASE CollectPassword /\ PasswordStep /\ mode = "generated"
  <2>1. /\ Current.pw.there /\ Orphan(Current.pw.owner) /\ UNCHANGED <<alive, uid, pc, pass>>
        /\ ~Current'.pw.there /\ Current'.pw.version = Current.pw.version + 1
    BY <1>6 DEF PasswordStep, reconcileKeystorePassword, SupplyPassword, CollectPassword
  <2>2. Belated' = Belated /\ Deletions' = Deletions
    BY <2>1 DEF Belated, Deletions, Orphan
  <2>3. PasswordsAhead' = PasswordsAhead - 1
    BY <1>1, <2>1, <2>2 DEF PasswordsAhead
  <2> QED  BY <1>0, <1>1, <1>2, <1>6, <2>1, <2>2, <2>3 DEF VersionInv
<1>7. CASE SupplyPassword /\ mode = "generated"
  BY <1>7 DEF SupplyPassword
<1> QED
  BY <1>3, <1>4, <1>5, <1>6, <1>7, SecretsStep DEF KeystoreStep, PasswordStep

(* A generated password has the number of its version, the even ones; a keystore that was issued
   under it opens with it. *)
Numbered(e) ==
  /\ e.pw.version > 0 /\ (~e.pw.there => e.pw.version % 2 = 1)
  /\ e.pw.there => e.pw.version % 2 = 0 /\ e.pw.value = [id |-> e.pw.version, newline |-> FALSE]
  /\ e.ks.issued => e.ks.seal % 2 = 0
  /\ e.ks.issued /\ e.ks.seal # 0 => e.ks.opens = [id |-> e.ks.seal, newline |-> FALSE]

(* A pass that tests a keystore has read a generated password, and no earlier one than the keystore
   was issued under. *)
NumbersInv ==
  mode = "generated" =>
    /\ \A i \in 1 .. Len(secrets) : Numbered(secrets[i])
    /\ pc = "replace" => /\ pass.pw = [id |-> pass.pw.id, newline |-> FALSE]
                         /\ pass.pw.id > 0 /\ pass.pw.id % 2 = 0
                         /\ pass.ks.seal <= pass.pw.id /\ pass.pw.id <= Current.pw.version

LEMMA NumbersSecrets ==
  ASSUME IInv, PlainTypes, NumbersInv, mode = "generated", [Next]_vars
  PROVE  /\ \A i \in 1 .. Len(secrets') : Numbered(secrets'[i])
         /\ Current.pw.version <= Current'.pw.version
<1>0. /\ secrets \in Seq(Pairs) /\ Len(secrets) \in Nat \ {0} /\ Numbered(Current)
      /\ Current \in Pairs /\ Current.pw.version \in Nat /\ Current.pw.there \in BOOLEAN
  <2>1. secrets \in Seq(Pairs) /\ Len(secrets) \in Nat \ {0}
    BY DEF IInv, SecretsInv
  <2>2. Current \in Pairs
    BY Ends DEF IInv
  <2> QED  BY <2>1, <2>2 DEF NumbersInv, Current, Pairs, PasswordSecrets
<1>1. CASE UNCHANGED secrets
  BY <1>0, <1>1 DEF NumbersInv, Current
<1>2. CASE CacheCatchesUp /\ Current' = Current
  <2>1. Len(secrets') = Len(secrets) - 1 /\ \A i \in 1 .. Len(secrets') : secrets'[i] = secrets[i + 1]
    BY <1>0, <1>2 DEF CacheCatchesUp
  <2>2. \A i \in 1 .. Len(secrets') : i + 1 \in 1 .. Len(secrets)
    BY <1>0, <2>1
  <2> QED  BY <1>0, <1>2, <2>1, <2>2 DEF NumbersInv
<1>3. ASSUME secrets' = Append(secrets, Current'), Current' \in Pairs, Numbered(Current')
      PROVE  \A i \in 1 .. Len(secrets') : Numbered(secrets'[i])
  <2>1. /\ Len(secrets') = Len(secrets) + 1 /\ secrets'[Len(secrets) + 1] = Current'
        /\ \A i \in 1 .. Len(secrets) : secrets'[i] = secrets[i]
    BY <1>0, <1>3
  <2> TAKE i \in 1 .. Len(secrets')
  <2>2. CASE i \in 1 .. Len(secrets)
    BY <2>1, <2>2 DEF NumbersInv
  <2>3. CASE i = Len(secrets) + 1
    BY <1>3, <2>1, <2>3
  <2> QED  BY <1>0, <2>1, <2>2, <2>3
<1>4. CASE KeystoreStep
  <2>1. /\ secrets' = Append(secrets, Current') /\ Current' \in Pairs /\ Current'.pw = Current.pw
        /\ \/ ~Current'.ks.issued
           \/ /\ Current'.ks.seal = Current.pw.version /\ Current'.ks.opens = Current.pw.value /\ Current.pw.there
    BY <1>4 DEF KeystoreStep, Issue, Renew
  <2>2. Numbered(Current')
    BY <1>0, <2>1, Zenon DEF Numbered
  <2> QED  BY <1>0, <1>3, <2>1, <2>2
<1>5. CASE PasswordStep
  <2>1. /\ secrets' = Append(secrets, Current') /\ Current' \in Pairs /\ Current'.ks = Current.ks
        /\ Current'.pw.version = Current.pw.version + 1
    BY <1>5 DEF PasswordStep
  <2>2. \/ /\ ~Current.pw.there /\ Current'.pw.there
           /\ Current'.pw.value = [id |-> Current.pw.version + 1, newline |-> FALSE]
        \/ Current.pw.there /\ ~Current'.pw.there
    BY <1>5 DEF PasswordStep, SupplyPassword, CollectPassword
  <2>3. Current.pw.there \/ Current.pw.version % 2 = 1
    BY <1>0 DEF Numbered
  <2>4. ~Current.pw.there \/ Current.pw.version % 2 = 0
    BY <1>0 DEF Numbered
  <2>5. \A v \in Nat : (v % 2 = 1 => (v + 1) % 2 = 0) /\ (v % 2 = 0 => (v + 1) % 2 = 1) /\ v + 1 > 0
    OBVIOUS
  <2>6. Numbered(Current')
    BY <1>0, <2>1, <2>2, <2>3, <2>4, <2>5, Zenon DEF Numbered
  <2> QED  BY <1>0, <1>3, <2>1, <2>6
<1> QED
  BY <1>1, <1>2, <1>4, <1>5, SecretsStep

LEMMA NumbersNext ==
  ASSUME IInv, PlainTypes, NumbersInv, [Next]_vars
  PROVE  NumbersInv'
<1> SUFFICES ASSUME mode = "generated"
             PROVE  /\ \A i \in 1 .. Len(secrets') : Numbered(secrets'[i])
                    /\ pc' = "replace" =>
                         /\ pass'.pw = [id |-> pass'.pw.id, newline |-> FALSE]
                         /\ pass'.pw.id > 0 /\ pass'.pw.id % 2 = 0
                         /\ pass'.ks.seal <= pass'.pw.id /\ pass'.pw.id <= Current'.pw.version
  <2>1. mode' = mode
    BY PlainNext
  <2> QED  BY <2>1, Zenon DEF NumbersInv, Numbered
<1>1. (\A i \in 1 .. Len(secrets') : Numbered(secrets'[i])) /\ Current.pw.version <= Current'.pw.version
  BY NumbersSecrets
<1>2. Current.pw.version \in Nat /\ Current'.pw.version \in Nat /\ pass.pw.id \in Nat /\ pass.ks.seal \in Nat
  <2>1. Current \in Pairs /\ Current' \in Pairs
    BY Ends, CurrentMoves DEF IInv
  <2> QED  BY <2>1 DEF Pairs, PasswordSecrets, IInv, PassInv, Passwords, AnyKeystores
<1>3. CASE readPassword("open", "replace", "exists") /\ pc' = "replace"
  <2>1. /\ pass' = [pass EXCEPT !.pw = Cached.pw.value] /\ Current' = Current
        /\ pass.ks.seal <= Cached.pw.version /\ Cached.pw.there
    BY <1>3 DEF readPassword, Current, IInv, PassInv
  <2>2. pass'.pw = Cached.pw.value /\ pass'.ks.seal = pass.ks.seal
    BY <2>1 DEF IInv, PassInv
  <2>3. Numbered(Cached) /\ Cached.pw.version <= Current.pw.version
    BY Ends DEF NumbersInv, IInv, SecretsInv, Cached
  <2>4. /\ pass'.pw = [id |-> Cached.pw.version, newline |-> FALSE]
        /\ Cached.pw.version > 0 /\ Cached.pw.version % 2 = 0
    BY <2>1, <2>2, <2>3 DEF Numbered
  <2>5. pass'.pw.id = Cached.pw.version
    BY <2>4
  <2>6. pass'.ks.seal <= Cached.pw.version /\ Cached.pw.version <= Current'.pw.version
    <3>1. pass.ks.seal <= Cached.pw.version /\ Current'.pw.version = Current.pw.version
      BY <2>1
    <3> QED  BY <3>1, <2>2, <2>3
  <2> QED  BY <1>1, <2>4, <2>5, <2>6
<1>4. CASE UNCHANGED <<pc, pass>>
  BY <1>1, <1>2, <1>4 DEF NumbersInv
<1>5. CASE pc' # "replace"
  BY <1>1, <1>5
<1> QED
  BY <1>3, <1>4, <1>5
     DEF Next, Pass, Abort, Begin, reconcileKeystorePassword, reconcileCertificate, readKeystore,
         readPassword, replaceStaleKeystore, certificateReady, KeystoreExists, TestKeystore, SaveStatus,
         CacheCatchesUp, Issue, Renew, SupplyPassword, SupplyKeystore, DeleteCluster,
         RecreateCluster, Collect, CollectPassword, CollectCertificate, vars

(* The last version under which a generated password was there. *)
Reached ==
  IF Current.pw.there THEN Current.pw.version
  ELSE IF Current.pw.version = 1 THEN 1 ELSE Current.pw.version - 1

(* The changes that are not the deletion of a KahunaCluster. *)
Others == changes - Deletions

(* The keystore is written once to be issued under a password, once to be deleted when there is a
   later one, and once for every change that is not the deletion of a KahunaCluster. *)
WritesInv ==
  /\ ~CertManager => cert = 0 /\ ~Current.ks.issued
  /\ mode = "generated" =>
       /\ Current.ks.issued => Current.ks.rv <= 1 + Others + Current.ks.seal
       /\ ~Current.ks.issued => Current.ks.rv <= Others + Reached
  /\ mode # "generated" =>
       /\ Current.ks.issued => Current.ks.rv <= 1 + changes + 2 * Current.ks.seal
       /\ ~Current.ks.issued => Current.ks.rv <= changes + 2 * Current.pw.version

(* A keystore that is deleted was issued under an earlier password than the pass has read. *)
LEMMA DeletedIsOlder ==
  ASSUME IInv, PlainTypes, NumbersInv, pc = "replace", Stale, Preconditions(pass.ks)
  PROVE  /\ Current.ks.issued /\ Current.ks.seal < Current.pw.version
         /\ mode = "generated" => Current.ks.seal + 2 <= Reached
<1>0. /\ Current \in Pairs /\ Current.pw.version \in Nat /\ Current.ks.seal \in Nat /\ pass.pw.id \in Nat
      /\ Sealed(Current) /\ Current.pw.there \in BOOLEAN
  BY Ends DEF IInv, PassInv, Pairs, PasswordSecrets, AnyKeystores, Passwords
<1>1. Current.ks = pass.ks /\ Current.ks.issued /\ Current.ks.opens # pass.pw
  BY DEF Preconditions, Stale, opensWith
<1>2. Current.ks.seal < Current.pw.version
  BY <1>0, <1>1 DEF Sealed, IInv, PassInv
<1>3. ASSUME mode = "generated" PROVE Current.ks.seal + 2 <= Reached
  <2>1. Numbered(Current)
    BY <1>3 DEF NumbersInv, IInv, SecretsInv, Current
  <2>2. /\ pass.pw = [id |-> pass.pw.id, newline |-> FALSE] /\ pass.pw.id > 0 /\ pass.pw.id % 2 = 0
        /\ Current.ks.seal <= pass.pw.id /\ pass.pw.id <= Current.pw.version
    BY <1>1, <1>3 DEF NumbersInv
  <2>3. Current.ks.seal % 2 = 0 /\ Current.ks.seal # pass.pw.id
    <3>1. Current.ks.seal # 0 => Current.ks.opens = [id |-> Current.ks.seal, newline |-> FALSE]
      BY <1>1, <2>1 DEF Numbered
    <3>2. CASE Current.ks.seal = 0
      BY <2>2, <3>2
    <3>3. ASSUME Current.ks.seal # 0, Current.ks.seal = pass.pw.id PROVE FALSE
      <4>1. pass.pw = [id |-> pass.pw.id, newline |-> FALSE] /\ Current.ks.opens # pass.pw
        BY <1>1, <2>2
      <4> QED  BY <3>1, <3>3, <4>1, Zenon
    <3> QED  BY <1>1, <2>1, <3>2, <3>3 DEF Numbered
  <2>4. Current.ks.seal + 2 <= pass.pw.id
    BY <1>0, <2>2, <2>3
  <2>5. /\ Current.pw.there => Reached = Current.pw.version
        /\ ~Current.pw.there => Current.pw.version % 2 = 1 /\ Reached = IF Current.pw.version = 1 THEN 1 ELSE Current.pw.version - 1
    BY <2>1 DEF Numbered, Reached
  <2> QED  BY <1>0, <2>2, <2>4, <2>5
<1> QED
  BY <1>1, <1>2, <1>3

LEMMA WritesNext ==
  ASSUME IInv, PlainTypes, NumbersInv, WritesInv, [Next]_vars
  PROVE  WritesInv'
<1>0. mode' = mode /\ IInv' /\ PlainTypes' /\ NumbersInv'
  BY PlainNext, InvNext, NumbersNext
<1>1. /\ Current \in Pairs /\ Current' \in Pairs
      /\ Sealed(Current) /\ Sealed(Current')
  BY Ends, CurrentMoves DEF IInv
<1>2. /\ Current.ks.seal \in Nat /\ Current.ks.rv \in Nat /\ Current.pw.version \in Nat
      /\ Current'.ks.seal \in Nat /\ Current'.ks.rv \in Nat /\ Current'.pw.version \in Nat
      /\ Current.pw.there \in BOOLEAN /\ Current.ks.issued \in BOOLEAN
      /\ Current'.pw.there \in BOOLEAN /\ Current'.ks.issued \in BOOLEAN
      /\ Current.ks.seal <= Current.pw.version
  BY <1>1 DEF Pairs, AnyKeystores, PasswordSecrets, Sealed
<1>3. changes \in Nat /\ Deletions \in Nat /\ changes' \in Nat /\ Deletions' \in Nat
  <2>1. changes \in Nat /\ Deletions \in Nat
    BY AheadTypes
  <2>2. changes' \in Nat /\ Deletions' \in Nat
    BY <1>0, KeystoreAssumption DEF PlainTypes
  <2> QED  BY <2>1, <2>2
<1>4. mode = "generated" => Numbered(Current) /\ Numbered(Current')
  <2>1. Len(secrets) \in 1 .. Len(secrets) /\ Len(secrets') \in 1 .. Len(secrets')
    <3>1. secrets \in Seq(Pairs) /\ Len(secrets) > 0 /\ secrets' \in Seq(Pairs) /\ Len(secrets') > 0
      BY <1>0, SecretsMove DEF IInv, SecretsInv
    <3> QED  BY <3>1
  <2>2. mode = "generated" => /\ \A i \in 1 .. Len(secrets) : Numbered(secrets[i])
                              /\ \A i \in 1 .. Len(secrets') : Numbered(secrets'[i])
    BY NumbersSecrets DEF NumbersInv
  <2> QED  BY <2>1, <2>2 DEF Current
<1>5. ~CertManager => cert' = 0 /\ ~Current'.ks.issued
  <2> SUFFICES ASSUME ~CertManager PROVE cert' = 0 /\ ~Current'.ks.issued
    OBVIOUS
  <2>1. cert = 0 /\ ~Current.ks.issued
    BY DEF WritesInv
  <2>2. cert' = 0
    BY <2>1 DEF Next, Pass, Abort, Begin, reconcileKeystorePassword, reconcileCertificate, readKeystore,
         readPassword, replaceStaleKeystore, certificateReady, KeystoreExists, TestKeystore, SaveStatus,
         CacheCatchesUp, Issue, Renew, SupplyPassword, SupplyKeystore, DeleteCluster,
         RecreateCluster, Collect, CollectPassword, CollectCertificate, vars
  <2> QED  BY <2>1, <2>2, SecretsStep DEF KeystoreStep, PasswordStep, Issue, Renew
<1>a. mode = "generated" => /\ Reached \in Nat /\ Reached' \in Nat
                            /\ Current.pw.there => Reached = Current.pw.version
                            /\ ~Current.pw.there => Current.pw.version - 1 <= Reached
                                                    /\ Reached <= Current.pw.version
                            /\ Current'.pw.there => Reached' = Current'.pw.version
                            /\ ~Current'.pw.there => Current'.pw.version - 1 <= Reached'
                                                    /\ Reached' <= Current'.pw.version
  <2>1. mode = "generated" => Current.pw.version > 0 /\ Current'.pw.version > 0
    BY <1>4 DEF Numbered
  <2>2. mode = "generated" => /\ Reached \in Nat /\ (Current.pw.there => Reached = Current.pw.version)
                              /\ Current.pw.version - 1 <= Reached /\ Reached <= Current.pw.version
    BY <1>2, <2>1, SMTT(20) DEF Reached
  <2>3. mode = "generated" => /\ Reached' \in Nat /\ (Current'.pw.there => Reached' = Current'.pw.version)
                              /\ Current'.pw.version - 1 <= Reached' /\ Reached' <= Current'.pw.version
    BY <1>2, <2>1, SMTT(20) DEF Reached
  <2> QED  BY <2>2, <2>3
<1> SUFFICES /\ mode = "generated" =>
                  /\ Current'.ks.issued => Current'.ks.rv <= 1 + Others' + Current'.ks.seal
                  /\ ~Current'.ks.issued => Current'.ks.rv <= Others' + Reached'
             /\ mode # "generated" =>
                  /\ Current'.ks.issued => Current'.ks.rv <= 1 + changes' + 2 * Current'.ks.seal
                  /\ ~Current'.ks.issued => Current'.ks.rv <= changes' + 2 * Current'.pw.version
  BY <1>0, <1>5 DEF WritesInv, CertManager
<1>b. /\ mode = "generated" =>
           /\ Current.ks.issued => Current.ks.rv <= 1 + Others + Current.ks.seal
           /\ ~Current.ks.issued => Current.ks.rv <= Others + Reached
      /\ mode # "generated" =>
           /\ Current.ks.issued => Current.ks.rv <= 1 + changes + 2 * Current.ks.seal
           /\ ~Current.ks.issued => Current.ks.rv <= changes + 2 * Current.pw.version
  BY DEF WritesInv
<1>c. changes <= changes' /\ Others <= Others' /\ Others \in Nat /\ Others' \in Nat
  <2>1. PICK c \in Nat, d \in Nat : c = changes' /\ d = Deletions'
    BY <1>3
  <2>2. Deletions <= changes /\ d <= c
    BY <1>0, <1>3, <2>1 DEF PlainTypes
  <2>3. changes <= c /\ changes - Deletions <= c - d
    BY <2>1, PlainNext
  <2>4. Others = changes - Deletions /\ Others' = c - d
    BY <2>1 DEF Others
  <2>5. changes - Deletions \in Nat /\ c - d \in Nat
    BY <1>3, <2>2
  <2> QED  BY <2>1, <2>3, <2>4, <2>5, Zenon
<1>6. CASE Current' = Current
  <2>1. Reached' = Reached
    BY <1>6 DEF Reached
  <2>8. CASE mode = "generated"
    <3>1. Reached \in Nat /\ Reached' \in Nat
      BY <1>a, <2>8
    <3>2. /\ Current.ks.issued => Current.ks.rv <= 1 + Others + Current.ks.seal
          /\ ~Current.ks.issued => Current.ks.rv <= Others + Reached
      BY <1>b, <2>8
    <3> QED  BY <1>2, <1>3, <1>6, <1>c, <2>1, <2>8, <3>1, <3>2
  <2>9. CASE mode # "generated"
    BY <1>2, <1>3, <1>6, <1>a, <1>b, <1>c, <2>1, <2>9
  <2> QED  BY <2>8, <2>9
<1>7. CASE PasswordStep
  <2>1. /\ Current'.ks = Current.ks /\ Current'.pw.version = Current.pw.version + 1
        /\ mode = "generated" => Current.pw.there \/ Current'.pw.there
    BY <1>7, Zenon DEF PasswordStep, SupplyPassword, CollectPassword
  <2>2. mode = "generated" => Reached <= Reached'
    BY <1>2, <1>a, <2>1
  <2>3. Current'.ks.rv = Current.ks.rv /\ Current'.ks.seal = Current.ks.seal /\ (Current'.ks.issued <=> Current.ks.issued)
    BY <2>1
  <2>4. Current'.pw.version = Current.pw.version + 1
    BY <2>1
  <2>8. CASE mode = "generated"
    <3>1. Reached \in Nat /\ Reached' \in Nat
      BY <1>a, <2>8
    <3>2. /\ Current.ks.issued => Current.ks.rv <= 1 + Others + Current.ks.seal
          /\ ~Current.ks.issued => Current.ks.rv <= Others + Reached
      BY <1>b, <2>8
    <3> QED  BY <1>2, <1>3, <1>c, <2>2, <2>3, <2>8, <3>1, <3>2
  <2>9. CASE mode # "generated"
    BY <1>2, <1>3, <1>b, <1>c, <2>3, <2>4, <2>9
  <2> QED  BY <2>8, <2>9
<1>8. CASE /\ Current'.pw = Current.pw /\ Current'.ks.rv = Current.ks.rv + 1
           /\ replaceStaleKeystore /\ Stale /\ Preconditions(pass.ks)
           /\ ~Current'.ks.issued /\ Current'.ks.seal = 0
  <2>1. /\ Current.ks.issued /\ Current.ks.seal < Current.pw.version
        /\ mode = "generated" => Current.ks.seal + 2 <= Reached
    BY <1>8, DeletedIsOlder, Zenon DEF replaceStaleKeystore
  <2>2. Reached' = Reached
    BY <1>8 DEF Reached
  <2>3. ~Current'.ks.issued /\ Current'.ks.rv = Current.ks.rv + 1 /\ Current'.pw.version = Current.pw.version
    BY <1>8
  <2>8. CASE mode = "generated"
    <3>1. Reached \in Nat /\ Reached' \in Nat
      BY <1>a, <2>8
    <3>2. /\ Current.ks.issued => Current.ks.rv <= 1 + Others + Current.ks.seal
          /\ ~Current.ks.issued => Current.ks.rv <= Others + Reached
      BY <1>b, <2>8
    <3> QED  BY <1>2, <1>3, <1>c, <2>1, <2>2, <2>3, <2>8, <3>1, <3>2
  <2>9. CASE mode # "generated"
    BY <1>2, <1>3, <1>a, <1>b, <1>c, <2>1, <2>2, <2>3, <2>9
  <2> QED  BY <2>8, <2>9
<1>9. CASE /\ Current'.pw = Current.pw /\ Current'.ks.rv = Current.ks.rv + 1
           /\ Issue /\ Current'.ks.issued /\ Current'.ks.seal = Current.pw.version
  <2>1. Current.pw.there /\ ~Current.ks.issued
    BY <1>9 DEF Issue
  <2>2. Current'.ks.issued /\ Current'.ks.rv = Current.ks.rv + 1 /\ Current'.ks.seal = Current.pw.version
    BY <1>9
  <2> QED  BY <1>2, <1>3, <1>a, <1>b, <1>c, <2>1, <2>2
<1>10. CASE /\ Current'.pw = Current.pw /\ Current'.ks.rv = Current.ks.rv + 1
            /\ Renew /\ Current'.ks.issued /\ Current'.ks.seal = Current.pw.version
  <2>1. Current.ks.issued /\ changes' = changes + 1 /\ Others' = Others + 1
    BY <1>3, <1>10 DEF Renew, Change, Deletions, Others
  <2>2. Current'.ks.issued /\ Current'.ks.rv = Current.ks.rv + 1 /\ Current'.ks.seal = Current.pw.version
    BY <1>10
  <2> QED  BY <1>2, <1>3, <1>b, <1>c, <2>1, <2>2
<1>11. CASE /\ Current'.pw = Current.pw /\ Current'.ks.rv = Current.ks.rv + 1
            /\ SupplyKeystore /\ ~Current'.ks.issued
  <2>1. changes' = changes + 1 /\ mode # "generated" /\ ~Current.ks.issued
    BY <1>11 DEF SupplyKeystore, Change, CertManager, WritesInv
  <2>2. Current'.pw.version = Current.pw.version /\ Current'.ks.rv = Current.ks.rv + 1 /\ ~Current'.ks.issued
    BY <1>11
  <2> QED  BY <1>2, <1>3, <1>b, <2>1, <2>2
<1> QED
  BY <1>6, <1>7, <1>8, <1>9, <1>10, <1>11, SecretsStep, Zenon DEF KeystoreStep

(* No state of the keystore that the cache or the pass has is ahead of the current one. *)
Ordered ==
  /\ \A i, j \in 1 .. Len(secrets) : i <= j => secrets[i].ks.rv <= secrets[j].ks.rv
  /\ pass.ks.rv <= Current.ks.rv

LEMMA OrderedSecrets ==
  ASSUME IInv, Ordered, [Next]_vars
  PROVE  /\ \A i, j \in 1 .. Len(secrets') : i <= j => secrets'[i].ks.rv <= secrets'[j].ks.rv
         /\ Current.ks.rv <= Current'.ks.rv
<1>0. /\ secrets \in Seq(Pairs) /\ Len(secrets) \in Nat \ {0}
      /\ \A i \in 1 .. Len(secrets) : secrets[i].ks.rv \in Nat /\ secrets[i].ks.rv <= Current.ks.rv
      /\ Current.ks.rv \in Nat /\ Current \in Pairs
  <2>1. secrets \in Seq(Pairs) /\ Len(secrets) \in Nat \ {0}
    BY DEF IInv, SecretsInv
  <2>2. \A i \in 1 .. Len(secrets) : secrets[i] \in Pairs
    BY <2>1
  <2> QED  BY <2>1, <2>2 DEF Ordered, Current, Pairs, AnyKeystores
<1>1. CASE UNCHANGED secrets
  BY <1>0, <1>1 DEF Ordered, Current
<1>2. CASE CacheCatchesUp /\ Current' = Current
  <2>1. Len(secrets') = Len(secrets) - 1 /\ \A i \in 1 .. Len(secrets') : secrets'[i] = secrets[i + 1]
    BY <1>0, <1>2 DEF CacheCatchesUp
  <2>2. \A i \in 1 .. Len(secrets') : i + 1 \in 1 .. Len(secrets)
    BY <1>0, <2>1
  <2>3. ASSUME NEW i \in 1 .. Len(secrets'), NEW j \in 1 .. Len(secrets'), i <= j
        PROVE  secrets'[i].ks.rv <= secrets'[j].ks.rv
    <3>1. i + 1 \in 1 .. Len(secrets) /\ j + 1 \in 1 .. Len(secrets) /\ i + 1 <= j + 1
      BY <2>2, <2>3
    <3>2. secrets[i + 1].ks.rv <= secrets[j + 1].ks.rv
      BY <3>1 DEF Ordered
    <3> QED  BY <2>1, <3>2, Zenon
  <2> QED  BY <1>0, <1>2, <2>3
<1>3. ASSUME secrets' = Append(secrets, Current'), Current.ks.rv <= Current'.ks.rv, Current'.ks.rv \in Nat
      PROVE  \A i, j \in 1 .. Len(secrets') : i <= j => secrets'[i].ks.rv <= secrets'[j].ks.rv
  <2>1. /\ Len(secrets') = Len(secrets) + 1 /\ secrets'[Len(secrets) + 1] = Current'
        /\ \A i \in 1 .. Len(secrets) : secrets'[i] = secrets[i]
    BY <1>0, <1>3
  <2> SUFFICES ASSUME NEW i \in 1 .. Len(secrets'), NEW j \in 1 .. Len(secrets'), i <= j
               PROVE  secrets'[i].ks.rv <= secrets'[j].ks.rv
    OBVIOUS
  <2>2. CASE j \in 1 .. Len(secrets)
    <3>1. i \in 1 .. Len(secrets)
      BY <1>0, <2>1, <2>2
    <3> QED  BY <2>1, <2>2, <3>1 DEF Ordered
  <2>3. CASE j = Len(secrets) + 1 /\ i \in 1 .. Len(secrets)
    BY <1>0, <1>3, <2>1, <2>3
  <2>4. CASE j = Len(secrets) + 1 /\ i = Len(secrets) + 1
    BY <1>3, <2>1, <2>4
  <2> QED  BY <1>0, <2>1, <2>2, <2>3, <2>4
<1>4. CASE KeystoreStep \/ PasswordStep
  <2>1. /\ secrets' = Append(secrets, Current') /\ Current' \in Pairs
        /\ Current'.ks.rv = Current.ks.rv + 1 \/ Current'.ks.rv = Current.ks.rv
    BY <1>4 DEF KeystoreStep, PasswordStep
  <2>2. Current.ks.rv <= Current'.ks.rv /\ Current'.ks.rv \in Nat
    BY <1>0, <2>1
  <2> QED  BY <1>3, <2>1, <2>2
<1> QED
  BY <1>1, <1>2, <1>4, SecretsStep

LEMMA OrderedNext ==
  ASSUME IInv, Ordered, [Next]_vars
  PROVE  Ordered'
<1>1. /\ \A i, j \in 1 .. Len(secrets') : i <= j => secrets'[i].ks.rv <= secrets'[j].ks.rv
      /\ Current.ks.rv <= Current'.ks.rv
  BY OrderedSecrets
<1>2. /\ Current.ks.rv \in Nat /\ Current'.ks.rv \in Nat /\ Cached.ks.rv \in Nat /\ pass.ks.rv \in Nat
      /\ Cached.ks.rv <= Current.ks.rv /\ pass.ks.rv <= Current.ks.rv
  <2>1. Current \in Pairs /\ Cached \in Pairs /\ Current' \in Pairs
    BY Ends, CurrentMoves DEF IInv
  <2>2. Cached.ks.rv <= Current.ks.rv
    BY DEF IInv, SecretsInv, Ordered, Current, Cached
  <2> QED  BY <2>1, <2>2 DEF Pairs, AnyKeystores, IInv, PassInv, Ordered
<1>3. pass'.ks \in {pass.ks, Cached.ks, NoKeystore(0)}
  <2>0. pass \in [uid : Nat, ks : AnyKeystores, pw : Passwords, ready : BOOLEAN] /\ NoPass.ks = NoKeystore(0)
    BY DEF IInv, PassInv, NoPass
  <2>1. CASE Begin \/ SaveStatus \/ Abort
    BY <2>0, <2>1 DEF Begin, SaveStatus, Abort, NoPass
  <2>2. ASSUME NEW from, NEW found, NEW missing, readKeystore(from, found, missing) \/ readPassword(from, found, missing)
        PROVE  pass'.ks \in {pass.ks, Cached.ks}
    BY <2>0, <2>2 DEF readKeystore, readPassword
  <2>3. CASE KeystoreExists \/ TestKeystore
    BY <2>0, <2>3 DEF KeystoreExists, TestKeystore
  <2>4. CASE UNCHANGED pass
    BY <2>4
  <2> QED
    BY <2>1, <2>2, <2>3, <2>4
       DEF Next, Pass, certificateReady, reconcileKeystorePassword, reconcileCertificate,
           replaceStaleKeystore, CacheCatchesUp, Issue, Renew, SupplyPassword, SupplyKeystore,
           DeleteCluster, RecreateCluster, Collect, CollectPassword, CollectCertificate, vars
<1>4. NoKeystore(0).rv = 0
  BY DEF NoKeystore
<1>5. pass'.ks.rv <= Current'.ks.rv
  <2>1. pass'.ks.rv \in {pass.ks.rv, Cached.ks.rv, 0}
    BY <1>3, <1>4, Zenon
  <2>2. pass.ks.rv <= Current'.ks.rv /\ Cached.ks.rv <= Current'.ks.rv /\ 0 <= Current'.ks.rv
    BY <1>1, <1>2
  <2> QED  BY <2>1, <2>2
<1> QED
  BY <1>1, <1>5 DEF Ordered

(* What is there when the operator starts. *)
LEMMA Started ==
  ASSUME Init
  PROVE  /\ Len(secrets) = 1 /\ Current \in Pairs
         /\ Current.ks.rv \in {0, 1} /\ Current.ks.seal = 0 /\ (Current.ks.issued => CertManager)
         /\ Current.pw.version = 1 /\ Current.pw.owner = 0
         /\ mode = "generated" => ~Current.pw.there
<1> DEFINE none == [there |-> FALSE, value |-> NoPassword, owner |-> 0, version |-> 1]
<1>1. PICK ks \in EarlierKeystores, pw \in IF mode \in {"supplied", "own"} THEN SuppliedSecret ELSE {none} :
        secrets = <<[ks |-> ks, pw |-> pw]>>
  BY DEF Init
<1>2. Len(secrets) = 1 /\ Current = [ks |-> ks, pw |-> pw]
  BY <1>1 DEF Current
<1>3. Current \in Pairs
  BY InvInit, Ends, Zenon DEF IInv
<1>4. pw.version = 1 /\ pw.owner = 0 /\ (mode = "generated" => ~pw.there)
  BY <1>1 DEF SuppliedSecret
<1>5. ks.rv \in {0, 1} /\ ks.seal = 0 /\ (ks.issued => CertManager)
  BY EarlierTypes
<1> QED
  BY <1>2, <1>3, <1>4, <1>5

(* Every invariant that the bound on the writes rests on. *)
CountInv == IInv /\ PlainTypes /\ VersionInv /\ NumbersInv /\ WritesInv /\ Ordered

LEMMA CountInit == Init => CountInv
<1> SUFFICES ASSUME Init PROVE CountInv
  OBVIOUS
<1>1. /\ Len(secrets) = 1 /\ Current \in Pairs
      /\ Current.ks.rv \in {0, 1} /\ Current.ks.seal = 0 /\ (Current.ks.issued => CertManager)
      /\ Current.pw.version = 1 /\ Current.pw.owner = 0
      /\ mode = "generated" => ~Current.pw.there
  BY Started
<1>2. IInv /\ PlainTypes
  BY InvInit, PlainInit
<1>3. pc = "idle" /\ cert = 0 /\ changes = 0 /\ pass = NoPass
  BY DEF Init
<1>4. Deletions = 0
  BY <1>2, <1>3 DEF PlainTypes
<1>5. VersionInv
  <2>1. Belated = 0
    BY <1>3 DEF Belated
  <2>2. mode = "generated" => PasswordsAhead = 1
    BY <1>1, <2>1 DEF PasswordsAhead
  <2> QED  BY <1>1, <1>3, <1>4, <2>2 DEF VersionInv
<1>6. NumbersInv
  <2>1. mode = "generated" => Numbered(Current)
    BY <1>1 DEF Numbered
  <2>2. \A i \in 1 .. Len(secrets) : secrets[i] = Current
    BY <1>1 DEF Current
  <2> QED  BY <1>3, <2>1, <2>2 DEF NumbersInv
<1>7. WritesInv
  <2>1. Others = 0
    BY <1>3, <1>4 DEF Others
  <2>2. mode = "generated" => Reached = 1
    BY <1>1 DEF Reached
  <2> QED  BY <1>1, <1>3, <2>1, <2>2 DEF WritesInv
<1>8. Ordered
  <2>1. pass.ks.rv = 0
    BY <1>3 DEF NoPass, NoKeystore
  <2> QED  BY <1>1, <2>1 DEF Ordered, Current
<1> QED
  BY <1>2, <1>5, <1>6, <1>7, <1>8 DEF CountInv

LEMMA CountNext == CountInv /\ [Next]_vars => CountInv'
  BY InvNext, PlainNext, VersionNext, NumbersNext, WritesNext, OrderedNext DEF CountInv

LEMMA Counted == CountInv => WritesPerChange
<1> SUFFICES ASSUME CountInv PROVE Current.ks.rv <= 3 + 4 * changes
  BY DEF WritesPerChange
<1>1. /\ Current.pw.version \in Nat /\ PasswordsAhead \in 0 .. 4 /\ Deletions \in Nat /\ changes \in Nat
  BY AheadTypes DEF CountInv
<1>2. Current.ks.seal \in Nat /\ Current.ks.rv \in Nat /\ Current.ks.seal <= Current.pw.version
  BY Ends DEF CountInv, IInv, Pairs, AnyKeystores, Sealed
<1>3. Deletions <= changes
  BY DEF CountInv, PlainTypes
<1>4. CASE mode = "generated"
  <2>1. Current.pw.version <= 2 + 4 * Deletions
    BY <1>1, <1>4 DEF CountInv, VersionInv
  <2>2. Reached \in Nat /\ Reached <= 2 + 4 * Deletions
    <3>1. Reached = Current.pw.version \/ Reached = 1 \/ (Current.pw.version # 0 /\ Reached = Current.pw.version - 1)
      <4>1. Len(secrets) \in 1 .. Len(secrets) /\ \A i \in 1 .. Len(secrets) : Numbered(secrets[i])
        BY <1>4 DEF CountInv, NumbersInv, IInv, SecretsInv
      <4>2. Numbered(Current)
        BY <4>1 DEF Current
      <4>3. Current.pw.version # 0
        BY <1>1, <4>2 DEF Numbered
      <4> QED  BY <1>1, <4>3 DEF Reached
    <3> QED  BY <1>1, <2>1, <3>1
  <2>3. Current.ks.rv <= 1 + (changes - Deletions) + Current.ks.seal \/ Current.ks.rv <= changes - Deletions + Reached
    BY <1>4 DEF CountInv, WritesInv, Others
  <2> QED  BY <1>1, <1>2, <1>3, <2>1, <2>2, <2>3
<1>5. CASE mode # "generated"
  <2>1. Current.pw.version <= 1 + changes
    BY <1>5 DEF CountInv, VersionInv
  <2>2. Current.ks.rv <= 1 + changes + 2 * Current.ks.seal \/ Current.ks.rv <= changes + 2 * Current.pw.version
    BY <1>5 DEF CountInv, WritesInv
  <2> QED  BY <1>1, <1>2, <2>1, <2>2
<1> QED
  BY <1>4, <1>5

(* Operator and cert-manager write a keystore at most four times for each change of user or
   cert-manager, and three times more, whatever the cache shows and wherever a pass is cut off:
   they never delete and issue it in turns for ever (replaceStaleKeystore). *)
THEOREM WritesAreBounded == Spec => []WritesPerChange
  BY CountInit, CountNext, Counted, PTL DEF Spec

LEMMA SequenceOf ==
  ASSUME NEW S, NEW T, NEW s \in Seq(S), \A i \in 1 .. Len(s) : s[i] \in T
  PROVE  s \in Seq(T)
  OBVIOUS

LEMMA CountTyped == CountInv => TypeOK
<1> SUFFICES ASSUME CountInv PROVE TypeOK
  OBVIOUS
<1>1. IInv /\ PlainTypes /\ Ordered
  BY DEF CountInv
<1>2. /\ secrets \in Seq(Pairs) /\ Len(secrets) \in Nat \ {0} /\ Chained(secrets)
      /\ \A i \in 1 .. Len(secrets) : secrets[i] \in Pairs
  <2>1. secrets \in Seq(Pairs) /\ Len(secrets) \in Nat \ {0} /\ Chained(secrets)
    BY <1>1 DEF IInv, SecretsInv
  <2> QED  BY <2>1
<1>3. Current.ks.rv \in Nat /\ Current.ks.rv <= MaxWrites
  <2>1. Current.ks.rv <= 3 + 4 * changes
    BY Counted DEF WritesPerChange
  <2>2. changes \in 0 .. MaxChanges
    BY <1>1 DEF PlainTypes
  <2>3. Current.ks.rv \in Nat
    BY <1>2 DEF Current, Pairs, AnyKeystores
  <2> QED  BY <2>1, <2>2, <2>3, KeystoreAssumption
<1>4. ASSUME NEW ks \in AnyKeystores, ks.rv <= Current.ks.rv
      PROVE  ks \in KeystoreSecrets
  <2>1. ks.rv \in 0 .. MaxWrites
    BY <1>3, <1>4, KeystoreAssumption DEF AnyKeystores
  <2> QED  BY <1>4, <2>1 DEF AnyKeystores, KeystoreSecrets
<1>5. \A i \in 1 .. Len(secrets) : secrets[i] \in [ks : KeystoreSecrets, pw : PasswordSecrets]
  <2> TAKE i \in 1 .. Len(secrets)
  <2>1. secrets[i].ks.rv <= Current.ks.rv
    BY <1>1, <1>2 DEF Ordered, Current
  <2>2. secrets[i] \in Pairs
    BY <1>2
  <2> QED  BY <1>4, <2>1, <2>2 DEF Pairs
<1>6. secrets \in Seq([ks : KeystoreSecrets, pw : PasswordSecrets])
  BY <1>2, <1>5, SequenceOf, Zenon
<1>7. \A i \in 1 .. Len(secrets) - 1 :
        /\ secrets[i].ks.rv <= secrets[i + 1].ks.rv
        /\ secrets[i].pw.version <= secrets[i + 1].pw.version
  <2> TAKE i \in 1 .. Len(secrets) - 1
  <2>1. i \in 1 .. Len(secrets) /\ i + 1 \in 1 .. Len(secrets) /\ i <= i + 1
    BY <1>2
  <2> QED  BY <1>1, <1>2, <2>1 DEF Ordered, Chained
<1>8. pass \in [uid : 0 .. uid, ks : KeystoreSecrets, pw : Passwords, ready : BOOLEAN]
  <2>1. pass \in [uid : Nat, ks : AnyKeystores, pw : Passwords, ready : BOOLEAN] /\ pass.uid \in 0 .. uid
    BY <1>1 DEF IInv, PassInv, PlainTypes
  <2>2. pass.ks \in KeystoreSecrets
    BY <1>1, <1>4, <2>1, Zenon DEF Ordered
  <2> QED  BY <2>1, <2>2
<1>9. /\ mode \in Modes /\ alive \in BOOLEAN /\ uid \in Nat /\ cert \in 0 .. uid /\ ready \in BOOLEAN
      /\ changes \in 0 .. MaxChanges /\ aborts \in 0 .. MaxAborts /\ Len(secrets) > 0
      /\ pc \in {"idle", "password", "certificate", "keystore", "open", "replace", "exists",
                 "material", "secret", "test", "save"}
  BY <1>1, <1>2 DEF PlainTypes
<1> QED
  BY <1>6, <1>7, <1>8, <1>9, Zenon DEF TypeOK

(* The types hold, MaxWrites among them: the bound that the model sets to the writes of the keystore
   is one that no behaviour reaches, and the cache is never ahead of the API server. *)
THEOREM KeystoreIsTyped == Spec => []TypeOK
  BY CountInit, CountNext, CountTyped, PTL DEF Spec
=============================================================================
