-------------------------- MODULE DriftCheckProofs --------------------------
(***************************************************************************)
(* Proofs about DriftCheck, for any secrets, keys, versions, lifetimes and *)
(* interleaving of the reads with everybody who writes: what its verdicts  *)
(* and its exit status say was true.                                       *)
(***************************************************************************)
EXTENDS DriftCheck, TLAPS

(* Between the reads of a Secret and of its ASM secret: a key that has not *)
(* differed is what it was, on both sides; and one that has not agreed,    *)
(* unless the cluster was edited, is as it was read or was taken away.     *)
ComparedTrue(c, h) ==
    c.at = "asm" =>
        /\ c.cur \in Secrets /\ c.data = c.fetched[c.cur]
        /\ \A f \in Fields : c.data[f] # 0 =>
              /\ f \notin h.differ =>
                    k8s[c.cur][f] = c.data[f] /\ asm[c.cur][f] = c.data[f]
              /\ f \notin h.agree /\ ~h.hand =>
                    \/ k8s[c.cur][f] = 0
                    \/ k8s[c.cur][f] = c.data[f] /\ asm[c.cur][f] # c.data[f]

(* Between the reads of the lifetimes, unless one was edited.              *)
LifetimeTrue(c, h) ==
    /\ c.at # "api" => c.live = "none"
    /\ c.at \in {"live", "api"} /\ ~h.hand => c.git = life.git
    /\ c.at = "api" /\ ~h.hand /\ c.live # "none" => life.live \in {c.live, life.git}

(* What a check that found nothing so far may vouch for.                   *)
Clear(fetched) ==
    /\ fetched[AiSecret][AiKey] \notin Misshapen \cup {0}
    /\ \A s \in Secrets, f \in Fields : fetched[s][f] # 0 => fetched[s][f] \notin Placeholder

SoFarSoGood(c) ==
    /\ c.at = "list" => c.fetched = NothingFetched
    /\ c.at \notin {"idle", "list"} /\ c.rows = {} =>
          /\ \A s \in Secrets \ c.todo : c.fetched[s] # Nothing
          /\ c.at \notin {"secret", "asm"} => c.todo = {} /\ Clear(c.fetched)
          /\ still => \A s \in Secrets, f \in Fields : c.fetched[s][f] # 0 =>
                /\ k8s[s][f] \in {c.fetched[s][f], asm[s][f]}
                /\ \/ asm[s][f] \in {0, c.fetched[s][f]}
                   \/ c.at = "asm" /\ s = c.cur

DInv ==
    /\ TypeOK
    /\ ComparedTrue(chk, since)
    /\ LifetimeTrue(chk, since)
    /\ SoFarSoGood(chk)
    /\ CleanCheckVouches

-----------------------------------------------------------------------------
(* How everybody else moves the values.                                    *)

StoreTypeOK ==
    /\ asm \in [Secrets -> Payload] /\ k8s \in [Secrets -> Payload]
    /\ adopted \in BOOLEAN /\ newest \in Nat

(* One side at a time; and without an edit the cluster only takes values   *)
(* that ASM has.                                                           *)
Moved ==
    /\ asm' = asm \/ k8s' = k8s
    /\ \A s \in Secrets, f \in Fields :
          /\ k8s'[s][f] = 0 => 0 \in {k8s[s][f], asm[s][f]}
          /\ k8s'[s][f] \in {k8s[s][f], asm[s][f]} \/ (HandWrites /\ k8s' # k8s)

(* Nothing is a payload.                                                   *)
LEMMA NothingTyped == Nothing \in Payload /\ NothingFetched \in [Secrets -> Payload]
BY DEF Nothing, Payload, NothingFetched

(* A key of a payload is written.                                          *)
LEMMA KeyWritten ==
  ASSUME NEW q \in Payload, NEW f \in Fields, NEW n \in Nat
  PROVE  /\ [q EXCEPT ![f] = n] \in Payload
         /\ \A g \in Fields : [q EXCEPT ![f] = n][g] = IF g = f THEN n ELSE q[g]
BY DEF Payload

(* Rotations, edits, the operator and the scripts.                         *)
LEMMA StoreMoves ==
  ASSUME StoreTypeOK, StoreNext
  PROVE  StoreTypeOK' /\ Moved
<1>1. CASE Rotate
  <2>1. newest' \in Nat /\ adopted' = adopted /\ k8s' = k8s /\ newest + 1 \in Nat
    BY <1>1 DEF Rotate, NextVersion, StoreTypeOK
  <2>2. PICK s \in Secrets, f \in Fields : asm' = [asm EXCEPT ![s][f] = newest + 1]
    BY <1>1 DEF Rotate
  <2> DEFINE p == [asm[s] EXCEPT ![f] = newest + 1]
  <2>3. p \in Payload
    BY <2>1, KeyWritten DEF StoreTypeOK
  <2>4. asm' = [asm EXCEPT ![s] = p]
    BY <2>2
  <2> HIDE DEF p
  <2>5. asm' \in [Secrets -> Payload]
    BY <2>3, <2>4 DEF StoreTypeOK
  <2> QED
    BY <2>1, <2>5 DEF StoreTypeOK, Moved
<1>2. CASE EditSecret
  <2>1. newest' = newest + 1 /\ newest' \in Nat /\ adopted' = adopted /\ asm' = asm
    BY <1>2 DEF EditSecret, NextVersion, StoreTypeOK
  <2>2. newest' # newest /\ newest' # 0
    BY <2>1 DEF StoreTypeOK
  <2>3. PICK s \in Secrets, f \in Fields : k8s' = [k8s EXCEPT ![s][f] = newest']
    BY <1>2, <2>1 DEF EditSecret
  <2>4. /\ k8s' \in [Secrets -> Payload]
        /\ \A t \in Secrets, g \in Fields :
              k8s'[t][g] = IF t = s /\ g = f THEN newest' ELSE k8s[t][g]
    <3> DEFINE p == [k8s[s] EXCEPT ![f] = newest']
    <3>1. p \in Payload /\ \A g \in Fields : p[g] = IF g = f THEN newest' ELSE k8s[s][g]
      BY <2>1, KeyWritten DEF StoreTypeOK
    <3>2. k8s' = [k8s EXCEPT ![s] = p]
      BY <2>3
    <3> HIDE DEF p
    <3> QED
      BY <3>1, <3>2 DEF StoreTypeOK
  <2> QED
    BY <2>1, <2>2, <2>4 DEF StoreTypeOK, Moved, HandWrites
<1>3. CASE Adopt
  BY <1>3 DEF Adopt, StoreTypeOK, Moved
<1>4. CASE \E s \in Secrets : RefreshSecret(s)
  BY <1>4 DEF RefreshSecret, StoreTypeOK, Moved
<1>5. CASE WriteAsm
  <2>1. \A p \in [Fields -> 0 .. newest] : p \in Payload
    BY DEF Payload, StoreTypeOK
  <2> QED
    BY <1>5, <2>1 DEF WriteAsm, StoreTypeOK, Moved
<1> QED
  BY <1>1, <1>2, <1>3, <1>4, <1>5 DEF StoreNext, ByHand, Operator

LifeTypeOK == life \in [git : Lifetimes, live : Lifetimes, api : Lifetimes, edits : Nat]

(* Only an edit changes what git says, or the Deployment to anything else. *)
LEMMA LifeMoves ==
  ASSUME LifeTypeOK, LifeNext
  PROVE  /\ LifeTypeOK'
         /\ \/ life'.edits # life.edits
            \/ life'.git = life.git /\ life'.live \in {life.live, life.git}
<1>1. CASE EditLifetime
  <2>1. PICK v \in Lifetimes, place \in {"git", "live"} :
            life' = [life EXCEPT ![place] = v, !.edits = @ + 1]
    BY <1>1 DEF EditLifetime
  <2> DEFINE l == [life EXCEPT ![place] = v]
  <2>2. l \in [git : Lifetimes, live : Lifetimes, api : Lifetimes, edits : Nat]
        /\ l.edits = life.edits
    BY DEF LifeTypeOK
  <2>3. life' = [l EXCEPT !.edits = l.edits + 1]
    BY <2>1
  <2> HIDE DEF l
  <2>4. life' \in [git : Lifetimes, live : Lifetimes, api : Lifetimes, edits : Nat]
        /\ life'.edits = l.edits + 1 /\ l.edits \in Nat
    BY <2>2, <2>3
  <2> QED
    BY <2>2, <2>4 DEF LifeTypeOK
<1>2. CASE DeployLifetime
  BY <1>2 DEF DeployLifetime, LifeTypeOK
<1>3. CASE RollCoder
  BY <1>3 DEF RollCoder, LifeTypeOK
<1> QED
  BY <1>1, <1>2, <1>3 DEF LifeNext

(* The histories keep their types.                                         *)
SinceTypeOK == since \in [agree : SUBSET Fields, differ : SUBSET Fields, hand : BOOLEAN]

LEMMA SinceTyped == ASSUME SinceTypeOK, Since PROVE SinceTypeOK'
BY DEF SinceTypeOK, Since, NothingSeen

-----------------------------------------------------------------------------
(* Everybody else: what the check carries stays true.                      *)

(* A comparison goes on while the values move.                             *)
LEMMA ComparisonGoesOn ==
  ASSUME DInv, StoreTypeOK', Moved, Since, chk' = chk
  PROVE  ComparedTrue(chk, since)'
<1> SUFFICES ASSUME chk.at = "asm" PROVE ComparedTrue(chk, since)'
  BY DEF ComparedTrue
<1> DEFINE s == chk.cur
<1>1. /\ s \in Secrets /\ chk.data = chk.fetched[s]
      /\ \A f \in Fields : chk.data[f] # 0 =>
            /\ f \notin since.differ => k8s[s][f] = chk.data[f] /\ asm[s][f] = chk.data[f]
            /\ f \notin since.agree /\ ~since.hand =>
                  k8s[s][f] = 0 \/ (k8s[s][f] = chk.data[f] /\ asm[s][f] # chk.data[f])
  BY DEF DInv, ComparedTrue
<1>2. /\ \A f \in Fields :
            /\ f \in since'.agree <=> f \in since.agree \/ (k8s'[s][f] # 0 /\ asm'[s][f] = k8s'[s][f])
            /\ f \in since'.differ <=> f \in since.differ \/ (k8s'[s][f] # 0 /\ asm'[s][f] # k8s'[s][f])
      /\ since'.hand <=> since.hand \/ (HandWrites /\ k8s' # k8s)
  <2> DEFINE there == {f \in Fields : k8s'[s][f] # 0}
  <2>1. since' = [agree |-> since.agree \cup {f \in there : asm'[s][f] = k8s'[s][f]},
                  differ |-> since.differ \cup {f \in there : asm'[s][f] # k8s'[s][f]},
                  hand |-> since.hand \/ (HandWrites /\ k8s' # k8s)]
    BY DEF Since, Watching
  <2> QED
    BY <2>1
<1>3. ASSUME NEW f \in Fields, chk.data[f] # 0
      PROVE  /\ f \notin since'.differ => k8s'[s][f] = chk.data[f] /\ asm'[s][f] = chk.data[f]
             /\ f \notin since'.agree /\ ~since'.hand =>
                  k8s'[s][f] = 0 \/ (k8s'[s][f] = chk.data[f] /\ asm'[s][f] # chk.data[f])
  <2>1. /\ asm' = asm \/ k8s' = k8s
        /\ k8s'[s][f] = 0 => 0 \in {k8s[s][f], asm[s][f]}
        /\ k8s'[s][f] \in {k8s[s][f], asm[s][f]} \/ (HandWrites /\ k8s' # k8s)
    BY <1>1 DEF Moved
  <2>2. f \notin since'.differ => k8s'[s][f] = chk.data[f] /\ asm'[s][f] = chk.data[f]
    BY <1>1, <1>2, <1>3, <2>1
  <2>3. f \notin since'.agree /\ ~since'.hand =>
          k8s'[s][f] = 0 \/ (k8s'[s][f] = chk.data[f] /\ asm'[s][f] # chk.data[f])
    BY <1>1, <1>2, <1>3, <2>1
  <2> QED
    BY <2>2, <2>3
<1> HIDE DEF s
<1> QED
  BY <1>1, <1>3 DEF ComparedTrue, s

(* So do the reads of the lifetimes.                                       *)
LEMMA LifetimesGoOn ==
  ASSUME DInv, Since, chk' = chk,
         life' = life \/ life'.edits # life.edits
           \/ (life'.git = life.git /\ life'.live \in {life.live, life.git})
  PROVE  LifetimeTrue(chk, since)'
<1>1. LifetimeTrue(chk, since)
  BY DEF DInv
<1>2. chk.at \in {"live", "api"} /\ ~since'.hand =>
        ~since.hand /\ life'.edits = life.edits
  BY DEF Since, Watching
<1> QED
  BY <1>1, <1>2 DEF LifetimeTrue

(* And what the check may vouch for, until somebody writes.                *)
LEMMA VouchingGoesOn ==
  ASSUME DInv, StoreTypeOK', Moved, Still, chk' = chk,
         vouched' = IF ValuesWritten THEN NothingFetched ELSE vouched
  PROVE  SoFarSoGood(chk)' /\ CleanCheckVouches'
<1>1. ASSUME ~ValuesWritten
      PROVE  \A s \in Secrets, f \in Fields :
                asm'[s][f] = asm[s][f] /\ k8s'[s][f] \in {k8s[s][f], asm[s][f]}
  BY <1>1 DEF ValuesWritten, Moved
<1>2. SoFarSoGood(chk)'
  <2>1. SoFarSoGood(chk) /\ (still' /\ chk.at # "idle" => still /\ ~ValuesWritten)
    BY DEF DInv, Still
  <2> QED
    BY <1>1, <2>1 DEF SoFarSoGood, Clear
<1>3. CleanCheckVouches'
  <2>1. CASE ValuesWritten
    BY <2>1 DEF CleanCheckVouches, NothingFetched, Nothing
  <2>2. CASE ~ValuesWritten
    BY <1>1, <2>2 DEF DInv, CleanCheckVouches
  <2> QED
    BY <2>1, <2>2
<1> QED
  BY <1>2, <1>3

(* The invariant, for everybody else.                                      *)
LEMMA OthersKeep == ASSUME DInv, Others, Since, Still PROVE DInv'
<1>1. StoreTypeOK /\ LifeTypeOK /\ SinceTypeOK /\ chk' = chk /\ verdict' = verdict
  BY DEF DInv, TypeOK, StoreTypeOK, LifeTypeOK, SinceTypeOK, Others
<1>2. StoreTypeOK' /\ Moved /\ LifeTypeOK'
      /\ (\/ life' = life \/ life'.edits # life.edits
          \/ life'.git = life.git /\ life'.live \in {life.live, life.git})
  <2>1. CASE StoreNext /\ life' = life
    BY <1>1, <2>1, StoreMoves DEF LifeTypeOK
  <2>2. CASE LifeNext /\ UNCHANGED storeVars
    BY <1>1, <2>2, LifeMoves DEF storeVars, StoreTypeOK, Moved
  <2> QED
    BY <2>1, <2>2 DEF Others
<1>3. vouched' = IF ValuesWritten THEN NothingFetched ELSE vouched
  BY DEF Others
<1>4. TypeOK'
  <2>1. SinceTypeOK' /\ still' \in BOOLEAN
    BY <1>1, SinceTyped DEF Still
  <2>2. vouched' \in [Secrets -> Payload]
    BY <1>3, NothingTyped DEF DInv, TypeOK
  <2> QED
    BY <1>1, <1>2, <2>1, <2>2 DEF TypeOK, DInv, StoreTypeOK, LifeTypeOK, SinceTypeOK
<1>5. ComparedTrue(chk, since)'
  BY <1>1, <1>2, ComparisonGoesOn
<1> QED
  BY <1>1, <1>2, <1>3, <1>4, <1>5, LifetimesGoOn, VouchingGoesOn DEF DInv

-----------------------------------------------------------------------------
(* The steps of the check.                                                 *)

VerdictTypeOK == verdict \in [drift : Statuses \cup {"none"}, life : Statuses \cup {"none"}]

(* A check goes on with c, having read what it has read.                   *)
LEMMA CheckGoes ==
  ASSUME DInv, Since, Still, UNCHANGED <<storeVars, life>>, NEW c \in Check, chk' = c,
         VerdictTypeOK', vouched' = vouched,
         chk.at # "idle" \/ c.at \in {"idle", "list"},
         ComparedTrue(c, since'), LifetimeTrue(c, since'), SoFarSoGood(c)
  PROVE  DInv'
<1>1. TypeOK'
  <2>1. SinceTypeOK' /\ still' \in BOOLEAN
    BY SinceTyped DEF Still, DInv, TypeOK, SinceTypeOK
  <2> QED
    BY <2>1 DEF TypeOK, DInv, storeVars, VerdictTypeOK, SinceTypeOK
<1>2. ComparedTrue(chk, since)' /\ LifetimeTrue(chk, since)'
  BY DEF ComparedTrue, LifetimeTrue, storeVars
<1>3. SoFarSoGood(chk)'
  <2>1. still' => still \/ c.at \in {"idle", "list"}
    BY DEF Still
  <2> QED
    BY <2>1 DEF SoFarSoGood, Clear, storeVars
<1>4. CleanCheckVouches'
  BY DEF DInv, CleanCheckVouches, storeVars
<1> QED
  BY <1>1, <1>2, <1>3, <1>4 DEF DInv

(* A row is added.                                                         *)
LEMMA RowAdded ==
  ASSUME NEW c \in Check, NEW statuses \in SUBSET Statuses, Adds(statuses, c)
  PROVE  /\ chk' \in Check /\ chk'.at = c.at /\ chk'.todo = c.todo /\ chk'.cur = c.cur
         /\ chk'.data = c.data /\ chk'.fetched = c.fetched /\ chk'.git = c.git
         /\ chk'.live = c.live /\ chk'.rows = c.rows \cup (statuses \ {"PASS"})
<1>1. c.rows \cup (statuses \ {"PASS"}) \in SUBSET {"WARN", "FAIL"}
  BY DEF Check, Statuses
<1> QED
  BY <1>1 DEF Adds, Check

(* Where no comparison is under way, there is nothing to know of one.      *)
LEMMA NotComparing ==
  ASSUME DInv, NEW c \in Check, NEW h, c.at \notin {"asm", "live", "api"}, c.live = "none"
  PROVE  ComparedTrue(c, h) /\ LifetimeTrue(c, h)
BY DEF ComparedTrue, LifetimeTrue

(* No check, no verdict.                                                   *)
LEMMA NoCheckTyped ==
  /\ NoCheck \in Check /\ NoCheck.at = "idle" /\ NoCheck.live = "none"
  /\ NoCheck.rows = {} /\ NoCheck.todo = {}
BY NothingTyped DEF NoCheck, Check

(* No verdict is a verdict.                                                *)
LEMMA NoVerdictTyped == NoVerdict \in [drift : Statuses \cup {"none"}, life : Statuses \cup {"none"}]
BY DEF NoVerdict

(* A check ends without having vouched for anything.                       *)
LEMMA CheckDiesKeeps ==
  ASSUME DInv, Since, Still, UNCHANGED <<storeVars, life>>, CheckDies PROVE DInv'
<1>1. chk' = NoCheck /\ VerdictTypeOK' /\ vouched' = vouched
  BY NoVerdictTyped DEF CheckDies, VerdictTypeOK
<1>2. SoFarSoGood(NoCheck)
  BY NoCheckTyped DEF SoFarSoGood
<1> QED
  BY <1>1, <1>2, NoCheckTyped, NotComparing, CheckGoes

(* A check starts with nothing fetched.                                    *)
LEMMA CheckStartKeeps ==
  ASSUME DInv, Since, Still, UNCHANGED <<storeVars, life>>, CheckStart PROVE DInv'
<1> DEFINE c == [NoCheck EXCEPT !.at = "list"]
<1>1. c = [NoCheck EXCEPT !.at = "list"] /\ chk' = c
  BY DEF CheckStart
<1>2. VerdictTypeOK' /\ vouched' = vouched
  BY DEF CheckStart, VerdictTypeOK, DInv, TypeOK
<1> HIDE DEF c
<1>3. c \in Check /\ c.at = "list" /\ c.live = "none" /\ c.fetched = NothingFetched
  BY <1>1, NoCheckTyped DEF Check, NoCheck
<1>4. SoFarSoGood(c)
  BY <1>3 DEF SoFarSoGood
<1> QED
  BY <1>1, <1>2, <1>3, <1>4, NotComparing, CheckGoes

(* The facts about a check in flight that most steps carry on.             *)
LEMMA InFlight ==
  DInv => /\ chk \in Check /\ VerdictTypeOK /\ SoFarSoGood(chk)
          /\ chk.at # "api" => chk.live = "none"
BY DEF DInv, TypeOK, LifetimeTrue, VerdictTypeOK

(* Nothing is read yet; with nothing to check there is a warning.          *)
LEMMA ListKeeps ==
  ASSUME DInv, Since, Still, UNCHANGED <<storeVars, life>>, ListExternalSecrets PROVE DInv'
<1>4. chk.at = "list" /\ verdict' = verdict /\ vouched' = vouched
  BY DEF ListExternalSecrets
<1>5. VerdictTypeOK'
  BY <1>4, InFlight DEF VerdictTypeOK
<1>1. /\ chk \in Check /\ chk.at = "list" /\ chk.live = "none"
      /\ VerdictTypeOK' /\ vouched' = vouched
  BY <1>4, <1>5, InFlight DEF Check
<1>2. CASE Adds({"WARN", "FAIL"}, [chk EXCEPT !.at = "login"])
           \/ Adds({"FAIL"}, [chk EXCEPT !.at = "login"])
  <2> DEFINE d == [chk EXCEPT !.at = "login"]
  <2>1. d \in Check /\ d.at = "login" /\ d.live = "none"
    BY <1>1 DEF Check
  <2> HIDE DEF d
  <2>2. Adds({"WARN", "FAIL"}, d) \/ Adds({"FAIL"}, d)
    BY <1>2 DEF d
  <2>3. {"WARN", "FAIL"} \in SUBSET Statuses /\ {"FAIL"} \in SUBSET Statuses
    BY DEF Statuses
  <2>4. /\ chk' \in Check /\ chk'.at = "login" /\ chk'.live = "none" /\ chk'.rows # {}
    BY <2>1, <2>2, <2>3, RowAdded
  <2>5. SoFarSoGood(chk')
    BY <2>4 DEF SoFarSoGood
  <2> QED
    BY <1>1, <2>4, <2>5, NotComparing, CheckGoes
<1>3. ASSUME NEW ready \in {"PASS", "FAIL"},
             Adds({ready}, [chk EXCEPT !.at = "secret", !.todo = Secrets])
      PROVE  DInv'
  <2> DEFINE m == [chk EXCEPT !.at = "secret"]
             d == [m EXCEPT !.todo = Secrets]
  <2>1. m = [chk EXCEPT !.at = "secret"] /\ d = [m EXCEPT !.todo = Secrets]
        /\ Adds({ready}, d)
    BY <1>3
  <2> HIDE DEF m, d
  <2>2. m \in Check /\ m.at = "secret" /\ m.live = "none"
        /\ m.fetched = NothingFetched
    BY <1>1, <2>1, InFlight DEF Check, SoFarSoGood
  <2>3. d \in Check /\ d.at = "secret" /\ d.live = "none" /\ d.todo = Secrets
        /\ d.fetched = NothingFetched
    BY <2>1, <2>2 DEF Check
  <2>4. {ready} \in SUBSET Statuses
    BY DEF Statuses
  <2>5. /\ chk' \in Check /\ chk'.at = "secret" /\ chk'.live = "none" /\ chk'.todo = Secrets
        /\ chk'.fetched = NothingFetched
    BY <2>1, <2>3, <2>4, RowAdded
  <2>6. SoFarSoGood(chk')
    BY <2>5 DEF SoFarSoGood, NothingFetched, Nothing
  <2> QED
    BY <1>1, <2>5, <2>6, NotComparing, CheckGoes
<1> QED
  BY <1>2, <1>3 DEF ListExternalSecrets

(* A check takes the data of a Secret.                                     *)
LEMMA DataTyped ==
  ASSUME NEW x \in Check, NEW p \in Payload, NEW y, y = [x EXCEPT !.data = p]
  PROVE  /\ y \in Check /\ y.data = p /\ y.at = x.at /\ y.live = x.live
         /\ y.rows = x.rows /\ y.todo = x.todo /\ y.cur = x.cur
BY DEF Check

(* What is fetched is kept by Secret.                                      *)
LEMMA FetchedTyped ==
  ASSUME NEW d \in Check, NEW got \in [Secrets -> Payload], NEW e,
         e = [d EXCEPT !.fetched = got]
  PROVE  e \in Check
BY DEF Check

(* A Secret is fetched, and its comparison begins; or it is not there.     *)
LEMMA ReadSecretKeeps ==
  ASSUME DInv, Since, Still, UNCHANGED <<storeVars, life>>, ReadClusterSecret PROVE DInv'
<1>1. /\ chk \in Check /\ chk.at = "secret" /\ chk.live = "none" /\ SoFarSoGood(chk)
      /\ VerdictTypeOK' /\ vouched' = vouched /\ k8s \in [Secrets -> Payload]
      /\ asm' = asm /\ k8s' = k8s
  BY InFlight DEF ReadClusterSecret, VerdictTypeOK, DInv, TypeOK, storeVars
<1>2. PICK s \in chk.todo :
          \/ /\ k8s[s] # Nothing
             /\ chk' = [chk EXCEPT !.at = "asm", !.todo = @ \ {s}, !.cur = s,
                                   !.data = k8s[s], !.fetched[s] = k8s[s]]
          \/ /\ k8s[s] = Nothing \/ "k8s" \in Unreadable
             /\ Adds({"WARN"}, [chk EXCEPT !.todo = @ \ {s}])
  BY DEF ReadClusterSecret
<1>3. s \in Secrets /\ chk.todo \subseteq Secrets /\ chk.todo \ {s} \in SUBSET Secrets
  BY <1>1 DEF Check
<1>4. CASE Adds({"WARN"}, [chk EXCEPT !.todo = @ \ {s}])
  <2> DEFINE d == [chk EXCEPT !.todo = chk.todo \ {s}]
  <2>1. d = [chk EXCEPT !.todo = chk.todo \ {s}] /\ Adds({"WARN"}, d)
    BY <1>4
  <2> HIDE DEF d
  <2>2. d \in Check /\ d.at = "secret" /\ d.live = "none"
    BY <1>1, <1>3, <2>1 DEF Check
  <2>3. {"WARN"} \in SUBSET Statuses
    BY DEF Statuses
  <2>6. /\ chk' \in Check /\ chk'.at = "secret" /\ chk'.live = "none"
        /\ chk'.rows = d.rows \cup ({"WARN"} \ {"PASS"})
    BY <2>1, <2>2, <2>3, RowAdded
  <2>4. /\ chk' \in Check /\ chk'.at = "secret" /\ chk'.live = "none" /\ chk'.rows # {}
    BY <2>6
  <2>5. SoFarSoGood(chk')
    BY <2>4 DEF SoFarSoGood
  <2> QED
    BY <1>1, <2>4, <2>5, NotComparing, CheckGoes
<1>5. CASE /\ k8s[s] # Nothing
           /\ chk' = [chk EXCEPT !.at = "asm", !.todo = @ \ {s}, !.cur = s,
                                 !.data = k8s[s], !.fetched[s] = k8s[s]]
  <2> DEFINE a == [chk EXCEPT !.at = "asm"]
             b == [a EXCEPT !.todo = chk.todo \ {s}]
             c == [b EXCEPT !.cur = s]
             d == [c EXCEPT !.data = k8s[s]]
             got == [chk.fetched EXCEPT ![s] = k8s[s]]
             e == [d EXCEPT !.fetched = got]
  <2>1. /\ a = [chk EXCEPT !.at = "asm"] /\ b = [a EXCEPT !.todo = chk.todo \ {s}]
        /\ c = [b EXCEPT !.cur = s] /\ d = [c EXCEPT !.data = k8s[s]]
        /\ got = [chk.fetched EXCEPT ![s] = k8s[s]] /\ e = [d EXCEPT !.fetched = got]
        /\ chk' = e
    BY <1>5
  <2> HIDE DEF a, b, c, d, e, got
  <2>2. a \in Check /\ a.at = "asm" /\ a.live = "none" /\ a.rows = chk.rows
    BY <1>1, <2>1 DEF Check
  <2>3. b \in Check /\ b.at = "asm" /\ b.live = "none" /\ b.rows = chk.rows /\ b.todo = chk.todo \ {s}
    BY <1>3, <2>1, <2>2 DEF Check
  <2>4. c \in Check /\ c.at = "asm" /\ c.live = "none" /\ c.rows = chk.rows /\ c.todo = chk.todo \ {s}
        /\ c.cur = s
    BY <1>3, <2>1, <2>3 DEF Check
  <2>14. chk.fetched \in [Secrets -> Payload] /\ k8s[s] \in Payload
    BY <1>1, <1>3 DEF Check
  <2>5. d \in Check /\ d.at = "asm" /\ d.live = "none" /\ d.rows = chk.rows /\ d.todo = chk.todo \ {s}
        /\ d.cur = s /\ d.data = k8s[s]
    <3>1. c \in Check /\ k8s[s] \in Payload /\ d = [c EXCEPT !.data = k8s[s]]
      BY <2>1, <2>4, <2>14
    <3>2. /\ d \in Check /\ d.data = k8s[s] /\ d.at = c.at /\ d.live = c.live
          /\ d.rows = c.rows /\ d.todo = c.todo /\ d.cur = c.cur
      BY <3>1, DataTyped
    <3> QED
      BY <2>4, <3>2
  <2>15. got \in [Secrets -> Payload]
    BY <1>3, <2>1, <2>14
  <2>6. got[s] = k8s[s] /\ \A t \in Secrets \ {s} : got[t] = chk.fetched[t]
    BY <1>3, <2>1, <2>14
  <2>12. e.at = d.at /\ e.live = d.live /\ e.rows = d.rows /\ e.todo = d.todo
         /\ e.cur = d.cur /\ e.data = d.data /\ e.fetched = got
    BY <2>1, <2>5 DEF Check
  <2>13. e \in Check
    BY <2>1, <2>5, <2>15, FetchedTyped
  <2>7. e \in Check /\ e.at = "asm" /\ e.live = "none" /\ e.rows = chk.rows /\ e.todo = chk.todo \ {s}
        /\ e.cur = s /\ e.data = k8s[s] /\ e.fetched = got
    BY <2>5, <2>12, <2>13
  <2>8. \A f \in Fields :
          /\ f \in since'.agree <=> k8s[s][f] # 0 /\ asm[s][f] = k8s[s][f]
          /\ f \in since'.differ <=> k8s[s][f] # 0 /\ asm[s][f] # k8s[s][f]
    <3>1. since'.agree = {f \in {g \in Fields : k8s[s][g] # 0} : asm[s][f] = k8s[s][f]}
          /\ since'.differ = {f \in {g \in Fields : k8s[s][g] # 0} : asm[s][f] # k8s[s][f]}
      BY <1>1, <2>1, <2>7 DEF Since, Watching, NothingSeen
    <3> QED
      BY <3>1
  <2>9. ComparedTrue(e, since')
    BY <1>3, <2>6, <2>7, <2>8 DEF ComparedTrue
  <2>10. LifetimeTrue(e, since')
    BY <2>7 DEF LifetimeTrue
  <2>11. SoFarSoGood(e)
    BY <1>1, <1>3, <1>5, <2>6, <2>7 DEF SoFarSoGood
  <2> QED
    BY <1>1, <2>1, <2>7, <2>9, <2>10, <2>11, CheckGoes
<1> QED
  BY <1>2, <1>4, <1>5

(* The comparison ends with its row; a PASS leaves the Secret confirmed.   *)
LEMMA ReadAsmKeeps ==
  ASSUME DInv, Since, Still, UNCHANGED <<storeVars, life>>, ReadAsmSecret PROVE DInv'
<1>1. /\ chk \in Check /\ chk.at = "asm" /\ chk.live = "none" /\ SoFarSoGood(chk)
      /\ ComparedTrue(chk, since) /\ VerdictTypeOK /\ vouched' = vouched
      /\ asm \in [Secrets -> Payload]
  BY InFlight DEF ReadAsmSecret, DInv, TypeOK
<1>2. PICK status \in
          {DriftStatus(chk.data, asm[chk.cur], asm[chk.cur] = Nothing),
           DriftStatus(chk.data, Nothing, TRUE)} :
        /\ Adds({status}, [chk EXCEPT !.at = "secret", !.cur = "none", !.data = Nothing])
        /\ verdict' = [verdict EXCEPT !.drift = status]
  BY DEF ReadAsmSecret
<1>3. status \in Statuses /\ {status} \in SUBSET Statuses
  BY <1>2 DEF DriftStatus, Statuses
<1>4. status = "PASS" =>
        \A f \in Fields : chk.data[f] # 0 => asm[chk.cur][f] \in {0, chk.data[f]}
  BY <1>2 DEF DriftStatus, Compared
<1>5. VerdictTypeOK'
  BY <1>1, <1>2, <1>3 DEF VerdictTypeOK
<1> DEFINE a == [chk EXCEPT !.at = "secret"]
           b == [a EXCEPT !.cur = "none"]
           d == [b EXCEPT !.data = Nothing]
<1>6. /\ a = [chk EXCEPT !.at = "secret"] /\ b = [a EXCEPT !.cur = "none"]
      /\ d = [b EXCEPT !.data = Nothing] /\ Adds({status}, d)
  BY <1>2
<1> HIDE DEF a, b, d
<1>7. a \in Check /\ a.at = "secret" /\ a.live = "none" /\ a.rows = chk.rows
      /\ a.todo = chk.todo /\ a.fetched = chk.fetched
  BY <1>1, <1>6 DEF Check
<1>8. b \in Check /\ b.at = "secret" /\ b.live = "none" /\ b.rows = chk.rows
      /\ b.todo = chk.todo /\ b.fetched = chk.fetched
  BY <1>6, <1>7 DEF Check
<1>9. d \in Check /\ d.at = "secret" /\ d.live = "none" /\ d.rows = chk.rows
      /\ d.todo = chk.todo /\ d.fetched = chk.fetched
  BY <1>6, <1>8, NothingTyped DEF Check
<1>10. /\ chk' \in Check /\ chk'.at = "secret" /\ chk'.live = "none"
       /\ chk'.rows = chk.rows \cup ({status} \ {"PASS"})
       /\ chk'.todo = chk.todo /\ chk'.fetched = chk.fetched
  BY <1>3, <1>6, <1>9, RowAdded
<1>11. SoFarSoGood(chk')
  <2> SUFFICES ASSUME chk'.rows = {} PROVE SoFarSoGood(chk')
    BY <1>10 DEF SoFarSoGood
  <2>1. chk.rows = {} /\ status = "PASS"
    BY <1>10
  <2>2. chk.cur \in Secrets /\ chk.data = chk.fetched[chk.cur]
    BY <1>1 DEF ComparedTrue
  <2>3. /\ \A s \in Secrets \ chk.todo : chk.fetched[s] # Nothing
        /\ still => \A s \in Secrets, f \in Fields : chk.fetched[s][f] # 0 =>
              /\ k8s[s][f] \in {chk.fetched[s][f], asm[s][f]}
              /\ asm[s][f] \in {0, chk.fetched[s][f]} \/ s = chk.cur
    BY <1>1, <2>1 DEF SoFarSoGood
  <2>4. still => \A s \in Secrets, f \in Fields : chk.fetched[s][f] # 0 =>
              /\ k8s[s][f] \in {chk.fetched[s][f], asm[s][f]}
              /\ asm[s][f] \in {0, chk.fetched[s][f]}
    BY <1>4, <2>1, <2>2, <2>3
  <2> QED
    BY <1>10, <2>3, <2>4 DEF SoFarSoGood
<1> QED
  BY <1>1, <1>5, <1>10, <1>11, NotComparing, CheckGoes

(* Without a row of its own, the placeholder check found nothing.          *)
LEMMA RowsOfPlaceholders ==
  ASSUME NEW fetched \in [Secrets -> Payload]
  PROVE  /\ PlaceholderRows(fetched) \in SUBSET Statuses
         /\ PlaceholderRows(fetched) \subseteq {"PASS"} => Clear(fetched)
<1>1. PlaceholderRows(fetched) \in SUBSET Statuses
  BY DEF PlaceholderRows, Statuses
<1>2. ASSUME PlaceholderRows(fetched) \subseteq {"PASS"} PROVE Clear(fetched)
  <2>1. fetched[AiSecret][AiKey] \notin Misshapen \cup {0}
    BY <1>2 DEF PlaceholderRows
  <2>2. ASSUME NEW s \in Secrets, NEW f \in Fields, fetched[s][f] # 0
        PROVE  fetched[s][f] \notin Placeholder
    <3>1. fetched[s] # Nothing
      BY <2>2 DEF Nothing
    <3>2. (IF \E g \in Fields : fetched[s][g] \in Placeholder \ {0}
           THEN "FAIL" ELSE "PASS") \in PlaceholderRows(fetched)
      BY <3>1 DEF PlaceholderRows
    <3>3. ~ \E g \in Fields : fetched[s][g] \in Placeholder \ {0}
      BY <1>2, <3>2
    <3> QED
      BY <2>2, <3>3
  <2> QED
    BY <2>1, <2>2 DEF Clear
<1> QED
  BY <1>1, <1>2

(* A later step of the check: it only adds rows.                           *)
LEMMA StaysGood ==
  ASSUME NEW c, NEW d, SoFarSoGood(c), c.at \notin {"idle", "list", "secret", "asm"},
         d.at \notin {"idle", "list", "secret", "asm"}, c.rows \subseteq d.rows,
         d.todo = c.todo, d.fetched = c.fetched
  PROVE  SoFarSoGood(d)
BY DEF SoFarSoGood

(* The placeholder check: no comparison is under way any more.             *)
LEMMA PlaceholdersKeep ==
  ASSUME DInv, Since, Still, UNCHANGED <<storeVars, life>>, CheckPlaceholders PROVE DInv'
<1>1. /\ chk \in Check /\ chk.at = "secret" /\ chk.live = "none" /\ SoFarSoGood(chk)
      /\ vouched' = vouched /\ chk.todo = {}
  BY InFlight DEF CheckPlaceholders
<1>2. VerdictTypeOK'
  BY NoVerdictTyped DEF CheckPlaceholders, VerdictTypeOK
<1>3. chk.fetched \in [Secrets -> Payload]
  BY <1>1 DEF Check
<1> DEFINE d == [chk EXCEPT !.at = "login"]
           rows == PlaceholderRows(chk.fetched)
<1>4. rows \in SUBSET Statuses /\ (rows \subseteq {"PASS"} => Clear(chk.fetched))
  BY <1>3, RowsOfPlaceholders
<1>5. Adds(rows, d) /\ d = [chk EXCEPT !.at = "login"]
  BY DEF CheckPlaceholders
<1> HIDE DEF d, rows
<1>6. d \in Check /\ d.at = "login" /\ d.live = "none" /\ d.rows = chk.rows
      /\ d.todo = {} /\ d.fetched = chk.fetched
  BY <1>1, <1>5 DEF Check
<1>7. /\ chk' \in Check /\ chk'.at = "login" /\ chk'.live = "none"
      /\ chk'.rows = chk.rows \cup (rows \ {"PASS"})
      /\ chk'.todo = {} /\ chk'.fetched = chk.fetched
  <2>1. d.rows \cup (rows \ {"PASS"}) \in SUBSET {"WARN", "FAIL"}
    BY <1>4, <1>6 DEF Check, Statuses
  <2> QED
    BY <1>5, <1>6, <2>1 DEF Adds, Check
<1>8. SoFarSoGood(chk')
  <2> SUFFICES ASSUME chk'.rows = {} PROVE SoFarSoGood(chk')
    BY <1>7 DEF SoFarSoGood
  <2>1. chk.rows = {} /\ Clear(chk.fetched)
    BY <1>4, <1>7
  <2> QED
    BY <1>1, <1>7, <2>1 DEF SoFarSoGood
<1> QED
  BY <1>1, <1>2, <1>7, <1>8, NotComparing, CheckGoes

(* The login: it goes on, warns or dies.                                   *)
LEMMA LoginKeeps ==
  ASSUME DInv, Since, Still, UNCHANGED <<storeVars, life>>, CoderLogin PROVE DInv'
<1>1. chk \in Check /\ chk.at = "login" /\ chk.live = "none" /\ SoFarSoGood(chk)
      /\ VerdictTypeOK
  BY InFlight DEF CoderLogin
<1>2. CASE chk' = [chk EXCEPT !.at = "git"] /\ UNCHANGED <<verdict, vouched>>
  <2>1. chk' \in Check /\ chk'.at = "git" /\ chk'.live = "none" /\ chk'.rows = chk.rows
        /\ chk'.todo = chk.todo /\ chk'.fetched = chk.fetched
    BY <1>1, <1>2 DEF Check
  <2>2. SoFarSoGood(chk') /\ VerdictTypeOK'
    BY <1>1, <1>2, <2>1, StaysGood DEF VerdictTypeOK
  <2> QED
    BY <1>1, <1>2, <2>1, <2>2, NotComparing, CheckGoes
<1>3. CASE Adds({"WARN"}, [chk EXCEPT !.at = "exit"]) /\ UNCHANGED <<verdict, vouched>>
  <2> DEFINE d == [chk EXCEPT !.at = "exit"]
  <2>1. d \in Check /\ d.at = "exit" /\ d.live = "none"
    BY <1>1 DEF Check
  <2>2. Adds({"WARN"}, d) /\ {"WARN"} \in SUBSET Statuses
    BY <1>3 DEF Statuses
  <2> HIDE DEF d
  <2>3. chk' \in Check /\ chk'.at = "exit" /\ chk'.live = "none"
        /\ chk'.rows = d.rows \cup ({"WARN"} \ {"PASS"})
    BY <2>1, <2>2, RowAdded
  <2>4. chk'.rows # {}
    BY <2>3
  <2>5. SoFarSoGood(chk') /\ VerdictTypeOK'
    BY <1>1, <1>3, <2>3, <2>4 DEF SoFarSoGood, VerdictTypeOK
  <2> QED
    BY <1>1, <1>3, <2>3, <2>5, NotComparing, CheckGoes
<1> QED
  BY <1>2, <1>3, CheckDiesKeeps DEF CoderLogin

(* The first read of the lifetime: nothing was edited since.               *)
LEMMA GitKeeps ==
  ASSUME DInv, Since, Still, UNCHANGED <<storeVars, life>>, ReadGitLifetime PROVE DInv'
<1>1. /\ chk \in Check /\ chk.at = "git" /\ chk.live = "none" /\ SoFarSoGood(chk)
      /\ VerdictTypeOK' /\ vouched' = vouched /\ life.git \in Lifetimes
  BY InFlight DEF ReadGitLifetime, VerdictTypeOK, DInv, TypeOK
<1> DEFINE a == [chk EXCEPT !.at = "live"]
<1>2. a \in Check /\ a.at = "live" /\ a.live = "none" /\ a.rows = chk.rows
      /\ a.todo = chk.todo /\ a.fetched = chk.fetched
  BY <1>1 DEF Check
<1>3. chk' = [a EXCEPT !.git = life.git]
  BY DEF ReadGitLifetime
<1> HIDE DEF a
<1>4. chk' \in Check /\ chk'.at = "live" /\ chk'.live = "none" /\ chk'.git = life.git
      /\ chk'.rows = chk.rows /\ chk'.todo = chk.todo /\ chk'.fetched = chk.fetched
  BY <1>1, <1>2, <1>3 DEF Check
<1>5. SoFarSoGood(chk')
  BY <1>1, <1>4, StaysGood
<1>6. ComparedTrue(chk', since') /\ LifetimeTrue(chk', since')
  BY <1>4 DEF ComparedTrue, LifetimeTrue
<1> QED
  BY <1>1, <1>4, <1>5, <1>6, CheckGoes

(* The second one: what git said then it says still, unless it was edited. *)
LEMMA LiveKeeps ==
  ASSUME DInv, Since, Still, UNCHANGED <<storeVars, life>>, ReadLiveLifetime PROVE DInv'
<1>1. /\ chk \in Check /\ chk.at = "live" /\ chk.live = "none" /\ SoFarSoGood(chk)
      /\ VerdictTypeOK' /\ vouched' = vouched /\ life.live \in Lifetimes
      /\ LifetimeTrue(chk, since)
  BY InFlight DEF ReadLiveLifetime, VerdictTypeOK, DInv, TypeOK
<1> DEFINE a == [chk EXCEPT !.at = "api"]
<1>2. a \in Check /\ a.at = "api" /\ a.live = "none" /\ a.rows = chk.rows
      /\ a.todo = chk.todo /\ a.fetched = chk.fetched /\ a.git = chk.git
  BY <1>1 DEF Check
<1>3. chk' = [a EXCEPT !.live = life.live] \/ chk' = a
  BY DEF ReadLiveLifetime
<1> HIDE DEF a
<1>4. chk' \in Check /\ chk'.at = "api" /\ chk'.live \in {life.live, "none"}
      /\ chk'.git = chk.git
      /\ chk'.rows = chk.rows /\ chk'.todo = chk.todo /\ chk'.fetched = chk.fetched
  BY <1>1, <1>2, <1>3 DEF Check
<1>5. SoFarSoGood(chk')
  BY <1>1, <1>4, StaysGood
<1>6. ~since'.hand => ~since.hand
  BY <1>1, <1>4 DEF Since, Watching
<1>7. ComparedTrue(chk', since') /\ LifetimeTrue(chk', since')
  BY <1>1, <1>4, <1>6 DEF ComparedTrue, LifetimeTrue
<1> QED
  BY <1>1, <1>4, <1>5, <1>7, CheckGoes

(* The third one ends the comparison.                                      *)
LEMMA ApiKeeps ==
  ASSUME DInv, Since, Still, UNCHANGED <<storeVars, life>>, ReadApiLifetime PROVE DInv'
<1>1. /\ chk \in Check /\ chk.at = "api" /\ SoFarSoGood(chk)
      /\ VerdictTypeOK /\ vouched' = vouched
  BY InFlight DEF ReadApiLifetime
<1>2. PICK api \in {life.api, "none"} :
        /\ Adds({LifeStatus(chk.git, chk.live, api)},
                [chk EXCEPT !.at = "token", !.git = "none", !.live = "none"])
        /\ verdict' = [verdict EXCEPT !.life = LifeStatus(chk.git, chk.live, api)]
  BY DEF ReadApiLifetime
<1> DEFINE status == LifeStatus(chk.git, chk.live, api)
           a == [chk EXCEPT !.at = "token"]
           b == [a EXCEPT !.git = "none"]
           d == [b EXCEPT !.live = "none"]
<1>3. status \in Statuses /\ {status} \in SUBSET Statuses
  BY DEF LifeStatus, Statuses
<1>4. VerdictTypeOK'
  BY <1>1, <1>2, <1>3 DEF VerdictTypeOK
<1>5. /\ a = [chk EXCEPT !.at = "token"] /\ b = [a EXCEPT !.git = "none"]
      /\ d = [b EXCEPT !.live = "none"] /\ Adds({status}, d)
  BY <1>2
<1> HIDE DEF status, a, b, d
<1>6. a \in Check /\ a.at = "token" /\ a.rows = chk.rows
      /\ a.todo = chk.todo /\ a.fetched = chk.fetched
  BY <1>1, <1>5 DEF Check
<1>7. b \in Check /\ b.at = "token" /\ b.rows = chk.rows
      /\ b.todo = chk.todo /\ b.fetched = chk.fetched
  BY <1>5, <1>6 DEF Check
<1>8. d \in Check /\ d.at = "token" /\ d.live = "none" /\ d.rows = chk.rows
      /\ d.todo = chk.todo /\ d.fetched = chk.fetched
  BY <1>5, <1>7 DEF Check
<1>9. /\ chk' \in Check /\ chk'.at = "token" /\ chk'.live = "none"
      /\ chk.rows \subseteq chk'.rows /\ chk'.todo = chk.todo /\ chk'.fetched = chk.fetched
  BY <1>3, <1>5, <1>8, RowAdded
<1>10. SoFarSoGood(chk')
  BY <1>1, <1>9, StaysGood
<1> QED
  BY <1>1, <1>4, <1>9, <1>10, NotComparing, CheckGoes

(* The last two checks.                                                    *)
LEMMA LastChecksKeep ==
  ASSUME DInv, Since, Still, UNCHANGED <<storeVars, life>>, CheckCiToken \/ CheckAiHealth
  PROVE  DInv'
<1>1. /\ chk \in Check /\ chk.at \in {"token", "health"} /\ chk.live = "none"
      /\ SoFarSoGood(chk) /\ VerdictTypeOK /\ vouched' = vouched
  BY InFlight DEF CheckCiToken, CheckAiHealth
<1>2. VerdictTypeOK'
  BY <1>1, NoVerdictTyped DEF CheckCiToken, CheckAiHealth, VerdictTypeOK
<1>3. PICK status \in Statuses, at \in {"health", "exit"} :
          Adds({status}, [chk EXCEPT !.at = at])
  BY DEF CheckCiToken, CheckAiHealth
<1> DEFINE d == [chk EXCEPT !.at = at]
<1>4. d \in Check /\ d.at = at /\ d.live = "none" /\ d.rows = chk.rows
      /\ d.todo = chk.todo /\ d.fetched = chk.fetched
  BY <1>1 DEF Check
<1>5. Adds({status}, d) /\ {status} \in SUBSET Statuses
  BY <1>3
<1> HIDE DEF d
<1>6. /\ chk' \in Check /\ chk'.at = at /\ chk'.live = "none"
      /\ chk.rows \subseteq chk'.rows /\ chk'.todo = chk.todo /\ chk'.fetched = chk.fetched
  BY <1>4, <1>5, RowAdded
<1>7. SoFarSoGood(chk')
  BY <1>1, <1>6, StaysGood
<1> QED
  BY <1>1, <1>2, <1>6, <1>7, NotComparing, CheckGoes

(* The exit: with no row but PASS the check vouches for what it fetched.   *)
LEMMA ExitKeeps ==
  ASSUME DInv, Since, Still, UNCHANGED <<storeVars, life>>, CheckExit PROVE DInv'
<1>1. /\ chk \in Check /\ chk.at = "exit" /\ SoFarSoGood(chk)
      /\ chk' = NoCheck /\ VerdictTypeOK'
  BY InFlight, NoVerdictTyped DEF CheckExit, VerdictTypeOK
<1>2. CASE ~(chk.rows = {} /\ still)
  <2>1. vouched' = vouched
    BY <1>2 DEF CheckExit
  <2>2. SoFarSoGood(NoCheck)
    BY NoCheckTyped DEF SoFarSoGood
  <2> QED
    BY <1>1, <2>1, <2>2, NoCheckTyped, NotComparing, CheckGoes
<1>3. CASE chk.rows = {} /\ still
  <2>1. vouched' = chk.fetched /\ chk.fetched \in [Secrets -> Payload]
    BY <1>1, <1>3 DEF CheckExit, Check
  <2>2. CleanCheckVouches'
    <3>1. /\ \A s \in Secrets : chk.fetched[s] # Nothing
          /\ Clear(chk.fetched)
          /\ \A s \in Secrets, f \in Fields : chk.fetched[s][f] # 0 =>
                /\ k8s[s][f] \in {chk.fetched[s][f], asm[s][f]}
                /\ asm[s][f] \in {0, chk.fetched[s][f]}
      BY <1>1, <1>3 DEF SoFarSoGood
    <3> QED
      BY <2>1, <3>1 DEF CleanCheckVouches, Clear, storeVars
  <2>3. TypeOK'
    <3>1. SinceTypeOK' /\ still' \in BOOLEAN
      BY SinceTyped DEF Still, DInv, TypeOK, SinceTypeOK
    <3> QED
      BY <1>1, <2>1, <3>1, NoCheckTyped DEF TypeOK, DInv, storeVars, VerdictTypeOK, SinceTypeOK
  <2>4. ComparedTrue(chk, since)' /\ LifetimeTrue(chk, since)' /\ SoFarSoGood(chk)'
    BY <1>1, NoCheckTyped DEF ComparedTrue, LifetimeTrue, SoFarSoGood
  <2> QED
    BY <2>2, <2>3, <2>4 DEF DInv
<1> QED
  BY <1>2, <1>3

-----------------------------------------------------------------------------
(* The theorems.                                                           *)

(* The invariant holds at first,                                           *)
LEMMA DInit == Init => DInv
<1> SUFFICES ASSUME Init PROVE DInv
  OBVIOUS
<1>1. /\ asm \in [Secrets -> Payload] /\ k8s \in [Secrets -> Payload]
      /\ adopted \in BOOLEAN /\ newest \in Nat
  <2>1. \A payloads \in Starts : payloads \in [Secrets -> Payload]
    BY StoreAssumption DEF Payload
  <2>2. k8s \in Starts /\ adopted = FALSE /\ newest \in 0 .. MaxVersion
        /\ asm = [s \in Secrets |-> Nothing]
    BY DEF Init, StoreInit
  <2> QED
    <3>1. k8s \in [Secrets -> Payload]
      BY <2>1, <2>2
    <3>2. asm \in [Secrets -> Payload] /\ adopted \in BOOLEAN
      BY <2>2, NothingTyped
    <3>3. newest \in Nat
      BY <2>2, StoreAssumption
    <3> QED
      BY <3>1, <3>2, <3>3
<1>2. /\ life \in [git : Lifetimes, live : Lifetimes, api : Lifetimes, edits : Nat]
      /\ chk = NoCheck /\ verdict = NoVerdict /\ since = NothingSeen /\ still = FALSE
      /\ vouched = NothingFetched
  BY DEF Init, DriftInit
<1>3. TypeOK
  BY <1>1, <1>2, NoCheckTyped, NoVerdictTyped, NothingTyped DEF TypeOK, NothingSeen
<1>4. ComparedTrue(chk, since) /\ LifetimeTrue(chk, since) /\ SoFarSoGood(chk)
  BY <1>2, NoCheckTyped DEF ComparedTrue, LifetimeTrue, SoFarSoGood
<1>5. CleanCheckVouches
  BY <1>2 DEF CleanCheckVouches
<1> QED
  BY <1>3, <1>4, <1>5 DEF DInv

(* and every step keeps it.                                                *)
LEMMA DNext == DInv /\ [Next]_driftVars => DInv'
<1> SUFFICES ASSUME DInv, [Next]_driftVars PROVE DInv'
  OBVIOUS
<1>1. CASE UNCHANGED driftVars
  BY <1>1 DEF DInv, TypeOK, ComparedTrue, LifetimeTrue, SoFarSoGood, Clear,
              CleanCheckVouches, driftVars, storeVars, checkVars
<1>2. CASE Others /\ Since /\ Still
  BY <1>2, OthersKeep
<1>3. CASE CheckNext /\ UNCHANGED <<storeVars, life>> /\ Since /\ Still
  <2>1. CASE CheckStart
    BY <1>3, <2>1, CheckStartKeeps
  <2>2. CASE ListExternalSecrets
    BY <1>3, <2>2, ListKeeps
  <2>3. CASE ReadClusterSecret
    BY <1>3, <2>3, ReadSecretKeeps
  <2>4. CASE ReadAsmSecret
    BY <1>3, <2>4, ReadAsmKeeps
  <2>5. CASE CheckPlaceholders
    BY <1>3, <2>5, PlaceholdersKeep
  <2>6. CASE CoderLogin
    BY <1>3, <2>6, LoginKeeps
  <2>7. CASE ReadGitLifetime
    BY <1>3, <2>7, GitKeeps
  <2>8. CASE ReadLiveLifetime
    BY <1>3, <2>8, LiveKeeps
  <2>9. CASE ReadApiLifetime
    BY <1>3, <2>9, ApiKeeps
  <2>10. CASE CheckCiToken \/ CheckAiHealth
    BY <1>3, <2>10, LastChecksKeep
  <2>11. CASE CheckExit
    BY <1>3, <2>11, ExitKeeps
  <2>12. CASE CheckCrash
    BY <1>3, <2>12, CheckDiesKeeps DEF CheckCrash
  <2> QED
    BY <1>3, <2>1, <2>2, <2>3, <2>4, <2>5, <2>6, <2>7, <2>8, <2>9, <2>10, <2>11, <2>12
       DEF CheckNext, CheckStep
<1> QED
  BY <1>1, <1>2, <1>3 DEF Next

(* The inductive invariant.                                                *)
LEMMA Invariance == Spec => []DInv
BY DInit, DNext, PTL DEF Spec

(* The variables keep their types, however the reads interleave.           *)
THEOREM DriftTypeOK == Spec => []TypeOK
BY Invariance, PTL DEF DInv

(* A check that exited 0 without a warning, undisturbed, has seen every    *)
(* Secret without a placeholder, and nothing that only ESO does puts       *)
(* another value of a key it saw anywhere.                                 *)
THEOREM CleanCheckTheorem == Spec => []CleanCheckVouches
BY Invariance, PTL DEF DInv

(* A comparison that ends with "FAIL" or "PASS".                           *)
LEMMA DriftVerdictStep ==
  ASSUME DInv, Next, chk.at = "asm", chk'.at = "secret"
  PROVE  LET value == asm[chk.cur]
             keys == Compared(chk.data, value)
         IN  /\ verdict'.drift = "FAIL" =>
                   \E f \in keys : chk.data[f] # value[f] /\ f \in since.differ
             /\ verdict'.drift = "PASS" =>
                   \/ since.hand
                   \/ \A f \in keys : f \in since.agree \/ k8s[chk.cur][f] = 0
<1>1. chk' # chk
  OBVIOUS
<1>2. ReadAsmSecret
  <2>1. chk' # NoCheck
    BY NoCheckTyped
  <2> QED
    BY <1>1, <2>1 DEF Next, Others, CheckNext, CheckStep, CheckStart, ListExternalSecrets,
       ReadClusterSecret, CheckPlaceholders, CoderLogin, CheckDies, ReadGitLifetime,
       ReadLiveLifetime, ReadApiLifetime, CheckCiToken, CheckAiHealth, CheckExit, CheckCrash
<1>3. ComparedTrue(chk, since) /\ chk \in Check /\ VerdictTypeOK
  BY DEF DInv, TypeOK, VerdictTypeOK
<1>4. PICK status \in
          {DriftStatus(chk.data, asm[chk.cur], asm[chk.cur] = Nothing),
           DriftStatus(chk.data, Nothing, TRUE)} :
        verdict' = [verdict EXCEPT !.drift = status]
  BY <1>2 DEF ReadAsmSecret
<1>5. verdict'.drift = status
  BY <1>3, <1>4 DEF VerdictTypeOK
<1>6. DriftStatus(chk.data, Nothing, TRUE) = "WARN"
  BY DEF DriftStatus, Compared, Nothing
<1>7. ASSUME verdict'.drift = "FAIL"
      PROVE  \E f \in Compared(chk.data, asm[chk.cur]) :
                chk.data[f] # asm[chk.cur][f] /\ f \in since.differ
  <2>1. PICK f \in Compared(chk.data, asm[chk.cur]) : chk.data[f] # asm[chk.cur][f]
    BY <1>4, <1>5, <1>6, <1>7 DEF DriftStatus
  <2>2. f \in since.differ
    BY <1>3, <2>1 DEF ComparedTrue, Compared
  <2> QED
    BY <2>1, <2>2
<1>8. ASSUME verdict'.drift = "PASS", ~since.hand
      PROVE  \A f \in Compared(chk.data, asm[chk.cur]) :
                f \in since.agree \/ k8s[chk.cur][f] = 0
  <2>1. \A f \in Compared(chk.data, asm[chk.cur]) : chk.data[f] = asm[chk.cur][f]
    BY <1>4, <1>5, <1>6, <1>8 DEF DriftStatus
  <2> QED
    BY <1>3, <1>8, <2>1 DEF ComparedTrue, Compared
<1> QED
  BY <1>7, <1>8

(* A MISMATCH was there at some instant between the two reads, and what    *)
(* passes was equal at one, unless it was edited by hand or taken away.    *)
THEOREM DriftVerdictTheorem == Spec => DriftVerdictTrue
<1>1. DInv /\ [Next]_driftVars =>
        [chk.at = "asm" /\ chk'.at = "secret" =>
           LET value == asm[chk.cur]
               keys == Compared(chk.data, value)
           IN  /\ verdict'.drift = "FAIL" =>
                     \E f \in keys : chk.data[f] # value[f] /\ f \in since.differ
               /\ verdict'.drift = "PASS" =>
                     \/ since.hand
                     \/ \A f \in keys : f \in since.agree \/ k8s[chk.cur][f] = 0]_driftVars
  BY DriftVerdictStep
<1> QED
  BY <1>1, Invariance, PTL DEF Spec, DriftVerdictTrue

(* A comparison of the lifetimes that ends with "PASS".                    *)
LEMMA LifetimeVerdictStep ==
  ASSUME DInv, Next, chk.at = "api", chk'.at = "token", verdict'.life = "PASS"
  PROVE  since.hand \/ {life.git, life.live, life.api} = {Expected}
<1> SUFFICES ASSUME ~since.hand PROVE {life.git, life.live, life.api} = {Expected}
  OBVIOUS
<1>1. chk' # NoCheck /\ chk' # chk
  BY NoCheckTyped
<1>2. ReadApiLifetime
  BY <1>1 DEF Next, Others, CheckNext, CheckStep, CheckStart, ListExternalSecrets,
       ReadClusterSecret, ReadAsmSecret, CheckPlaceholders, CoderLogin, CheckDies, ReadGitLifetime,
       ReadLiveLifetime, CheckCiToken, CheckAiHealth, CheckExit, CheckCrash
<1>3. LifetimeTrue(chk, since) /\ VerdictTypeOK
  BY DEF DInv, TypeOK, VerdictTypeOK
<1>4. PICK api \in {life.api, "none"} :
        verdict' = [verdict EXCEPT !.life = LifeStatus(chk.git, chk.live, api)]
  BY <1>2 DEF ReadApiLifetime
<1>5. LifeStatus(chk.git, chk.live, api) = "PASS"
  BY <1>3, <1>4 DEF VerdictTypeOK
<1>6. chk.live # "none" /\ api # "none" /\ {chk.git, chk.live, api} = {Expected}
  BY <1>5 DEF LifeStatus
<1>7. chk.git = life.git /\ life.live \in {chk.live, life.git}
  BY <1>3, <1>6 DEF LifetimeTrue
<1> QED
  BY <1>4, <1>6, <1>7

(* When the token-life row says PASS, git, the Deployment and the API are  *)
(* all the expected one at that moment, unless somebody edited one.        *)
THEOREM LifetimeVerdictTheorem == Spec => LifetimeVerdictTrue
<1>1. DInv /\ [Next]_driftVars =>
        [chk.at = "api" /\ chk'.at = "token" /\ verdict'.life = "PASS" =>
           since.hand \/ {life.git, life.live, life.api} = {Expected}]_driftVars
  BY LifetimeVerdictStep
<1> QED
  BY <1>1, Invariance, PTL DEF Spec, LifetimeVerdictTrue
=============================================================================
