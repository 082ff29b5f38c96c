----------------------------- MODULE DeviceKeys -----------------------------
(***************************************************************************)
(* OfflineQrService, with the ways DevicesService and StaffOfflineService  *)
(* lead to it: the public keys under which one device signs the badges it  *)
(* prints offline.  The device is an entry that staff members take up with *)
(* their own phones, each with key pairs of its own, so that two phones    *)
(* may ask for the same version.  Answers get lost.  Clocks agree; the     *)
(* format of a badge and REVOKED, which no code sets, are left out.        *)
(***************************************************************************)
EXTENDS Naturals, FiniteSets

CONSTANTS
  Phones,
  KeyVersions,   \* versions a phone may ask for
  MaxPairs,      \* bound on the key pairs of a phone
  MaxTime,       \* bound on the clock
  MaxBadges,     \* bound on the badges printed
  Life           \* how long a badge is valid

ASSUME KeyAssumption ==
  /\ KeyVersions \subseteq Nat \ {0}
  /\ MaxPairs \in Nat \ {0} /\ MaxTime \in Nat /\ MaxBadges \in Nat /\ Life \in Nat

VARIABLES
  clock,
  key,          \* DeviceOfflineKey of a version
  active,       \* Device.status is ACTIVE
  assigned,     \* the phone whose owner is assigned to the device
  wanted,       \* provisioning request of a phone
  hand,         \* the version and pair a phone signs with
  printed,      \* badges: version, pair, issuedAt; good when the key was in force
  inForce       \* versions and pairs in force (history)

keyVars == <<clock, key, active, assigned, wanted, hand, printed, inForce>>

Nobody == "nobody"
NoPair == <<Nobody, 0>>
Never == MaxTime + 1                 \* validUntil: null
NoKey == [status |-> "NONE", pair |-> NoPair, from |-> 0, until |-> Never]
NoRequest == [step |-> "none"]
NoCredential == [version |-> 0, pair |-> NoPair]
CredentialOf(x) == [version |-> x.version, pair |-> x.pair]

Pairs == Phones \X (1..MaxPairs)
Credentials == [version : KeyVersions, pair : Pairs]
Keys == [status : {"NONE", "ACTIVE", "ROTATED"}, pair : Pairs \cup {NoPair},
         from : 0..MaxTime, until : 0..Never]
Requested == [step : {"ask", "stored"}, version : KeyVersions, pair : Pairs, rotate : BOOLEAN]

KeyTypeOK ==
  /\ clock \in 0..MaxTime
  /\ key \in [KeyVersions -> Keys]
  /\ active \in BOOLEAN
  /\ assigned \in Phones \cup {Nobody}
  /\ wanted \in [Phones -> Requested \cup {NoRequest}]
  /\ hand \in [Phones -> Credentials \cup {NoCredential}]
  /\ printed \subseteq [version : KeyVersions, pair : Pairs, issuedAt : 0..MaxTime, good : BOOLEAN]
  /\ inForce \subseteq Credentials

-----------------------------------------------------------------------------
(* Provisioning.                                                           *)

\* provisionMyAssignedDeviceKey checks the assignment and the device; the
\* endpoints of the administrators only the event, which is not archived.
MayProvision(p, role) == role = "STAFF" => active /\ assigned = p

\* Who asks has passed the checks; they are not repeated when the key is stored.
Ask(p) ==
  /\ wanted[p] = NoRequest
  /\ \E role \in {"STAFF", "ADMIN"}, v \in KeyVersions, n \in 1..MaxPairs, rotate \in BOOLEAN :
       /\ MayProvision(p, role)
       /\ wanted' = [wanted EXCEPT ![p] =
                       [step |-> "ask", version |-> v, pair |-> <<p, n>>, rotate |-> rotate]]
  /\ UNCHANGED <<clock, key, active, assigned, hand, printed, inForce>>

\* rotateExisting: the other ACTIVE versions sign nothing from now on.
Rotated(rotate, version) ==
  [v \in KeyVersions |->
     IF rotate /\ v # version /\ key[v].status = "ACTIVE"
     THEN [key[v] EXCEPT !.status = "ROTATED", !.until = clock]
     ELSE key[v]]

\* Mutant: a version that is provisioned again starts anew.
UpsertedFromNow(old, pair) == [status |-> "ACTIVE", pair |-> pair, from |-> clock, until |-> Never]

\* A version that exists keeps its validFrom.
Upserted(old, pair) ==
  [status |-> "ACTIVE", pair |-> pair, until |-> Never,
   from |-> IF old.status = "NONE" THEN clock ELSE old.from]

\* provisionDevicePublicKey, in one transaction.
Provision(p) ==
  /\ wanted[p].step = "ask"
  /\ LET w == wanted[p] IN
     /\ key' = [Rotated(w.rotate, w.version) EXCEPT ![w.version] = Upserted(@, w.pair)]
     /\ inForce' = {CredentialOf(w)} \cup
                   {c \in inForce : ~w.rotate /\ c.version # w.version}
  /\ wanted' = [wanted EXCEPT ![p].step = "stored"]
  /\ UNCHANGED <<clock, active, assigned, hand, printed>>

\* The phone signs with the key once it is told of it, and goes on with the one
\* it had when the answer is lost.
Receive(p) ==
  /\ wanted[p].step = "stored"
  /\ hand' = [hand EXCEPT ![p] = CredentialOf(wanted[p])]
  /\ wanted' = [wanted EXCEPT ![p] = NoRequest]
  /\ UNCHANGED <<clock, key, active, assigned, printed, inForce>>

LoseAnswer(p) ==
  /\ wanted[p].step = "stored"
  /\ wanted' = [wanted EXCEPT ![p] = NoRequest]
  /\ UNCHANGED <<clock, key, active, assigned, hand, printed, inForce>>

-----------------------------------------------------------------------------
(* Badges.                                                                 *)

\* A phone prints a badge without asking anybody.
PrintBadge(p) ==
  /\ hand[p] # NoCredential
  /\ Cardinality(printed) < MaxBadges
  /\ printed' = printed \cup
       {[version |-> hand[p].version, pair |-> hand[p].pair, issuedAt |-> clock,
         good |-> hand[p] \in inForce]}
  /\ UNCHANGED <<clock, key, active, assigned, wanted, hand, inForce>>

Expired(b) == clock > b.issuedAt + Life

\* assertKeyUsableForPayload.
KeyUsable(k, issuedAt) == k.from <= issuedAt /\ issuedAt <= k.until

\* verifySignedOfflineQr: what sync and the scans ask of a badge.
Verifies(b) ==
  LET k == key[b.version] IN
  ~Expired(b) /\ k.status # "NONE" /\ KeyUsable(k, b.issuedAt) /\ k.pair = b.pair

-----------------------------------------------------------------------------
Tick ==
  /\ clock < MaxTime
  /\ clock' = clock + 1
  /\ UNCHANGED <<key, active, assigned, wanted, hand, printed, inForce>>

\* activate, suspend, revoke and remove of DevicesService.
UpdateStatus ==
  /\ active' = ~active
  /\ UNCHANGED <<clock, key, assigned, wanted, hand, printed, inForce>>

Reassign ==
  /\ assigned' \in Phones \cup {Nobody}
  /\ UNCHANGED <<clock, key, active, wanted, hand, printed, inForce>>

KeyInit ==
  /\ clock = 0
  /\ key = [v \in KeyVersions |-> NoKey]
  /\ active = TRUE
  /\ assigned = Nobody
  /\ wanted = [p \in Phones |-> NoRequest]
  /\ hand = [p \in Phones |-> NoCredential]
  /\ printed = {}
  /\ inForce = {}

KeyNext ==
  \/ Tick \/ UpdateStatus \/ Reassign
  \/ \E p \in Phones : Ask(p) \/ Provision(p) \/ Receive(p) \/ LoseAnswer(p) \/ PrintBadge(p)

KeySpec == KeyInit /\ [][KeyNext]_keyVars

-----------------------------------------------------------------------------
(* Properties.                                                             *)

\* Another pair took the version of the badge.
Replaced(b) == key[b.version].pair # b.pair

\* A comment of runOfflineRegistration says of the badge printed offline that it
\* must remain valid after the synchronisation.  A badge signed while its key was
\* in force verifies until it expires, whatever is rotated, suspended, assigned
\* or provisioned again meanwhile; only another phone, or the same one with a new
\* pair, that takes its version puts an end to it.
PrintedBadgeHolds == \A b \in printed : b.good => Verifies(b) \/ Expired(b) \/ Replaced(b)
=============================================================================
