------------------------ MODULE SecretMigrationProofs ------------------------
(***************************************************************************)
(* Proofs about SecretMigration, for any secrets and fields, any refused   *)
(* requests and any number of runs, edits, rotations and refreshes.        *)
(***************************************************************************)
EXTENDS SecretMigration, TLAPS

Busy == {"describe", "put", "create"}

Bounded == [Fields -> 0 .. newest]

(* Every value was written by hand once, and what a run carries is there.  *)
ValuesExist ==
    /\ \A s \in Secrets : asm[s] \in Bounded /\ k8s[s] \in Bounded
    /\ mig.got \in Bounded
    /\ mig.at \in Busy => mig.cur \in Secrets /\ mig.got # Nothing /\ ~mig.dry

(* While calm both sides are equal, and the run carries what is there.     *)
CalmEqual == calm => asm = k8s /\ (mig.at \in Busy => mig.got = k8s[mig.cur])

(* A run that nobody disturbs leaves equal secrets behind it.              *)
CopiedBehind ==
    /\ quiet /\ ~adopted /\ ~mig.dry /\ mig.at # "idle" =>
          /\ \A s \in Secrets \ mig.todo :
                asm[s] = k8s[s] \/ (mig.at \in Busy /\ s = mig.cur)
          /\ mig.at \in Busy => mig.got = k8s[mig.cur]
    /\ settled => mig.at = "idle"
    /\ CleanMigrationCopies

MInv == TypeOK /\ ValuesExist /\ CalmEqual /\ CopiedBehind

(* The invariant holds before the first run.                               *)
LEMMA InitHolds == Init => MInv
<1> SUFFICES ASSUME Init PROVE MInv
  OBVIOUS
<1>1. /\ mig.at = "idle" /\ calm = FALSE /\ quiet = FALSE /\ settled = FALSE
      /\ mig \in Migration /\ mig.got = Nothing
  BY DEF Init, MigInit, NoMigration, Migration, Payload, Nothing
<1>2. /\ asm = [s \in Secrets |-> Nothing] /\ k8s \in [Secrets -> [Fields -> 0 .. MaxVersion]]
      /\ adopted = FALSE /\ newest \in 0 .. MaxVersion
      /\ \A s \in Secrets, f \in Fields : k8s[s][f] <= newest
  BY StoreAssumption DEF Init, StoreInit
<1>3. newest \in Nat /\ Nothing \in Bounded
  BY <1>2, StoreAssumption DEF Nothing, Bounded
<1>4. \A s \in Secrets : k8s[s] \in Bounded /\ k8s[s] \in Payload
  <2> SUFFICES ASSUME NEW s \in Secrets PROVE k8s[s] \in Bounded /\ k8s[s] \in Payload
    OBVIOUS
  <2>1. k8s[s] \in [Fields -> 0 .. MaxVersion] /\ \A f \in Fields : k8s[s][f] <= newest
    BY <1>2
  <2> QED
    BY <1>3, <2>1, StoreAssumption DEF Bounded, Payload
<1>5. TypeOK
  BY <1>1, <1>2, <1>3, <1>4 DEF TypeOK, Payload, Nothing
<1>6. ValuesExist
  BY <1>1, <1>2, <1>3, <1>4 DEF ValuesExist, Busy
<1> QED
  BY <1>1, <1>5, <1>6 DEF MInv, CalmEqual, CopiedBehind, CleanMigrationCopies

(* A run that dies leaves the secrets as they are.                         *)
LEMMA MigDiesKeeps == ASSUME MInv, MigDies, UNCHANGED storeVars PROVE MInv'
<1>1. /\ mig'.at = "idle" /\ calm' = FALSE /\ quiet' = FALSE /\ settled' = settled
      /\ mig' \in Migration /\ mig'.got = Nothing
  BY DEF MigDies, NoMigration, Migration, Payload, Nothing
<1>2. UNCHANGED <<asm, k8s, adopted, newest>>
  BY DEF storeVars
<1>3. newest \in Nat /\ Nothing \in Bounded
  BY DEF MInv, TypeOK, Nothing, Bounded
<1>4. TypeOK'
  BY <1>1, <1>2 DEF MInv, TypeOK
<1>5. ValuesExist'
  BY <1>1, <1>2, <1>3 DEF MInv, ValuesExist, Busy, Bounded
<1> QED
  BY <1>1, <1>2, <1>4, <1>5 DEF MInv, CalmEqual, CopiedBehind, CleanMigrationCopies

(* Writing one secret to ASM.                                              *)
LEMMA CopiesKeeps == ASSUME MInv, mig.at \in Busy, Copies PROVE MInv'
<1>1. /\ TypeOK /\ mig \in Migration /\ mig.cur \in Secrets
      /\ mig.got \in Bounded /\ mig.got \in Payload
  BY DEF MInv, TypeOK, ValuesExist, Migration
<1>2. /\ asm' = [asm EXCEPT ![mig.cur] = mig.got]
      /\ UNCHANGED <<k8s, adopted, newest, calm, quiet, settled>>
  BY DEF Copies
<1>3. /\ mig' \in Migration /\ mig'.at = "read" /\ mig'.got = Nothing
      /\ mig'.todo = mig.todo /\ mig'.dry = mig.dry
  <2> DEFINE m == [mig EXCEPT !.at = "read"]
             n == [m EXCEPT !.cur = "none"]
  <2>1. m \in Migration /\ m.at = "read" /\ m.todo = mig.todo /\ m.dry = mig.dry
    BY <1>1 DEF Migration
  <2>2. n = [m EXCEPT !.cur = "none"] /\ mig' = [n EXCEPT !.got = Nothing]
    BY DEF Copies
  <2> HIDE DEF m, n
  <2>3. n \in Migration /\ n.at = "read" /\ n.todo = mig.todo /\ n.dry = mig.dry
    BY <2>1, <2>2 DEF Migration
  <2> QED
    BY <2>2, <2>3 DEF Migration, Payload, Nothing
<1>4. /\ asm'[mig.cur] = mig.got
      /\ \A s \in Secrets : s # mig.cur => asm'[s] = asm[s]
  BY <1>1, <1>2 DEF TypeOK
<1>5. TypeOK'
  BY <1>1, <1>2, <1>3 DEF TypeOK
<1>6. ValuesExist'
  <2>1. newest \in Nat /\ Nothing \in Bounded
    BY <1>1 DEF TypeOK, Nothing, Bounded
  <2> QED
    BY <1>1, <1>2, <1>3, <1>4, <2>1 DEF MInv, ValuesExist, Busy, Bounded
<1>7. CalmEqual'
  <2> SUFFICES ASSUME calm PROVE asm' = k8s
    BY <1>2, <1>3 DEF CalmEqual, Busy
  <2>1. asm = k8s /\ mig.got = k8s[mig.cur]
    BY DEF MInv, CalmEqual
  <2> QED
    BY <1>1, <1>2, <2>1 DEF TypeOK
<1>8. CopiedBehind'
  <2>1. ~settled
    BY DEF MInv, CopiedBehind, Busy
  <2> QED
    BY <1>1, <1>2, <1>3, <1>4, <2>1 DEF MInv, CopiedBehind, CleanMigrationCopies, Busy
<1> QED
  BY <1>5, <1>6, <1>7, <1>8 DEF MInv

(* Reading the next Secret.                                                *)
LEMMA ReadSecretKeeps == ASSUME MInv, ReadSecret PROVE MInv'
<1>1. TypeOK /\ mig \in Migration /\ mig.at = "read" /\ UNCHANGED storeVars
  BY DEF MInv, TypeOK, ReadSecret
<1>2. CASE MigDies
  BY <1>1, <1>2, MigDiesKeeps
<1>3. ASSUME NEW s \in mig.todo, k8s[s] # Nothing, mig.dry,
             mig' = [mig EXCEPT !.todo = @ \ {s}], UNCHANGED <<calm, quiet, settled>>
      PROVE  MInv'
  <2>1. /\ mig' \in Migration /\ mig'.at = "read" /\ mig'.dry /\ mig'.got = mig.got
    BY <1>1, <1>3 DEF Migration
  <2> QED
    BY <1>1, <1>3, <2>1 DEF MInv, TypeOK, ValuesExist, Busy, Bounded, CalmEqual,
      CopiedBehind, CleanMigrationCopies, storeVars
<1>4. ASSUME NEW s \in mig.todo, k8s[s] # Nothing, ~mig.dry,
             mig' = [mig EXCEPT !.todo = @ \ {s}, !.at = "describe",
                                !.cur = s, !.got = k8s[s]],
             UNCHANGED <<calm, quiet, settled>>
      PROVE  MInv'
  <2>1. s \in Secrets /\ k8s[s] \in Payload /\ k8s[s] \in Bounded
    BY <1>1 DEF TypeOK, Migration, MInv, ValuesExist
  <2>2. /\ mig' \in Migration /\ mig'.at = "describe" /\ ~mig'.dry
        /\ mig'.got = k8s[s] /\ mig'.cur = s /\ mig'.todo = mig.todo \ {s}
    <3> DEFINE m == [mig EXCEPT !.todo = @ \ {s}]
               n == [m EXCEPT !.at = "describe"]
               o == [n EXCEPT !.cur = s]
    <3>1. m \in Migration /\ m.todo = mig.todo \ {s} /\ ~m.dry
      BY <1>1, <1>4 DEF Migration
    <3>2. n = [m EXCEPT !.at = "describe"] /\ o = [n EXCEPT !.cur = s]
          /\ mig' = [o EXCEPT !.got = k8s[s]]
      BY <1>4
    <3> HIDE DEF m, n, o
    <3>3. n \in Migration /\ n.todo = mig.todo \ {s} /\ ~n.dry /\ n.at = "describe"
      BY <3>1, <3>2 DEF Migration
    <3>4. o \in Migration /\ o.todo = mig.todo \ {s} /\ ~o.dry /\ o.at = "describe" /\ o.cur = s
      BY <2>1, <3>2, <3>3 DEF Migration
    <3> QED
      BY <2>1, <3>2, <3>4 DEF Migration
  <2>3. TypeOK'
    BY <1>1, <1>4, <2>2 DEF TypeOK, storeVars
  <2>4. ValuesExist'
    BY <1>1, <1>4, <2>1, <2>2 DEF MInv, ValuesExist, Bounded, Nothing, storeVars
  <2>5. CalmEqual'
    BY <1>1, <1>4, <2>2 DEF MInv, CalmEqual, storeVars
  <2>6. CopiedBehind'
    BY <1>1, <1>4, <2>1, <2>2 DEF MInv, CopiedBehind, CleanMigrationCopies, Busy, storeVars
  <2> QED
    BY <2>3, <2>4, <2>5, <2>6 DEF MInv
<1> QED
  BY <1>2, <1>3, <1>4 DEF ReadSecret

(* The other steps of a run.                                               *)
LEMMA MigNextKeeps == ASSUME MInv, MigNext PROVE MInv'
<1>1. TypeOK /\ mig \in Migration
  BY DEF MInv, TypeOK
<1>2. CASE MigStart
  <2>1. PICK dry \in BOOLEAN :
           mig' = [NoMigration EXCEPT !.at = "read", !.dry = dry, !.todo = Secrets]
    BY <1>2 DEF MigStart
  <2>2. /\ mig' \in Migration /\ mig'.at = "read" /\ mig'.todo = Secrets
        /\ mig'.got = Nothing
    <3>1. mig' = [at |-> "read", dry |-> dry, todo |-> Secrets, cur |-> "none", got |-> Nothing]
      BY <2>1 DEF NoMigration
    <3> QED
      BY <3>1 DEF Migration, Payload, Nothing
  <2>3. UNCHANGED <<asm, k8s, adopted, newest>> /\ settled' = FALSE
        /\ quiet' = TRUE /\ calm' = (asm = k8s)
    BY <1>2 DEF MigStart, storeVars
  <2>4. newest \in Nat /\ Nothing \in Bounded
    BY <1>1 DEF TypeOK, Nothing, Bounded
  <2>5. TypeOK'
    BY <1>1, <2>2, <2>3 DEF TypeOK
  <2>6. ValuesExist'
    BY <2>2, <2>3, <2>4 DEF MInv, ValuesExist, Busy, Bounded
  <2>7. CalmEqual' /\ CopiedBehind'
    BY <2>2, <2>3 DEF CalmEqual, CopiedBehind, CleanMigrationCopies, Busy
  <2> QED
    BY <2>5, <2>6, <2>7 DEF MInv
<1>3. CASE ReadSecret
  BY <1>3, ReadSecretKeeps
<1>4. CASE DescribeSecret
  <2>1. PICK to \in {"put", "create"} : mig' = [mig EXCEPT !.at = to]
    BY <1>4 DEF DescribeSecret
  <2>2. /\ mig' \in Migration /\ mig'.at = to /\ mig'.got = mig.got
        /\ mig'.cur = mig.cur /\ mig'.dry = mig.dry /\ mig'.todo = mig.todo
    BY <1>1, <2>1 DEF Migration
  <2>3. UNCHANGED <<asm, k8s, adopted, newest, calm, quiet, settled>> /\ mig.at = "describe"
    BY <1>4 DEF DescribeSecret, storeVars
  <2>4. TypeOK' /\ ValuesExist'
    BY <1>1, <2>2, <2>3 DEF MInv, TypeOK, ValuesExist, Busy, Bounded
  <2>5. CalmEqual' /\ CopiedBehind'
    BY <2>2, <2>3 DEF MInv, CalmEqual, CopiedBehind, CleanMigrationCopies, Busy
  <2> QED
    BY <2>4, <2>5 DEF MInv
<1>5. CASE PutSecret
  BY <1>5, CopiesKeeps, MigDiesKeeps DEF PutSecret, Busy
<1>6. CASE CreateAsmSecret
  BY <1>6, CopiesKeeps, MigDiesKeeps DEF CreateAsmSecret, Busy
<1>7. CASE MigExit
  <2>1. /\ mig'.at = "idle" /\ calm' = FALSE /\ quiet' = FALSE /\ settled' = (quiet /\ ~mig.dry)
        /\ mig' \in Migration /\ mig'.got = Nothing /\ mig.at = "read" /\ mig.todo = {}
        /\ UNCHANGED <<asm, k8s, adopted, newest>>
    BY <1>7 DEF MigExit, NoMigration, Migration, Payload, Nothing, storeVars
  <2>2. newest \in Nat /\ Nothing \in Bounded
    BY <1>1 DEF TypeOK, Nothing, Bounded
  <2>3. TypeOK'
    BY <1>1, <2>1 DEF TypeOK
  <2>4. ValuesExist'
    BY <2>1, <2>2 DEF MInv, ValuesExist, Busy, Bounded
  <2>5. CleanMigrationCopies'
    <3> SUFFICES ASSUME quiet, ~mig.dry, ~adopted PROVE asm = k8s
      BY <2>1 DEF CleanMigrationCopies
    <3>1. \A s \in Secrets : asm[s] = k8s[s]
      BY <2>1 DEF MInv, CopiedBehind, Busy
    <3> QED
      BY <1>1, <3>1 DEF TypeOK
  <2> QED
    BY <2>1, <2>3, <2>4, <2>5 DEF MInv, CalmEqual, CopiedBehind
<1>8. CASE MigCrash
  BY <1>8, MigDiesKeeps DEF MigCrash
<1> QED
  BY <1>2, <1>3, <1>4, <1>5, <1>6, <1>7, <1>8 DEF MigNext, MigStep

(* What operators do by hand ends whatever was said of the run.            *)
LEMMA HandNextKeeps == ASSUME MInv, HandNext PROVE MInv'
<1>1. /\ TypeOK /\ ValuesExist /\ newest \in Nat /\ newest' = newest + 1
      /\ mig' = mig /\ calm' = FALSE /\ quiet' = FALSE /\ settled' = FALSE
  BY DEF MInv, TypeOK, HandNext, ByHand, Rotate, EditSecret, NextVersion
<1>2. \A p \in Bounded : p \in Bounded' /\ p \in Payload
  BY <1>1 DEF Bounded, Payload
<1>3. ASSUME NEW p \in Bounded, NEW f \in Fields
      PROVE  [p EXCEPT ![f] = newest + 1] \in Bounded' /\ [p EXCEPT ![f] = newest + 1] \in Payload
  BY <1>1 DEF Bounded, Payload
<1>4. /\ \A s \in Secrets : asm'[s] \in Bounded' /\ k8s'[s] \in Bounded'
      /\ asm' \in [Secrets -> Payload] /\ k8s' \in [Secrets -> Payload]
      /\ adopted' = adopted
  <2>1. CASE Rotate
    <3>1. PICK s \in Secrets, f \in Fields : asm' = [asm EXCEPT ![s][f] = newest + 1]
      BY <2>1 DEF Rotate
    <3>2. asm' = [asm EXCEPT ![s] = [asm[s] EXCEPT ![f] = newest + 1]]
      BY <3>1
    <3>3. UNCHANGED <<k8s, adopted>>
      BY <2>1 DEF Rotate
    <3> QED
      BY <1>1, <1>2, <1>3, <3>2, <3>3 DEF TypeOK, ValuesExist
  <2>2. CASE EditSecret
    <3>1. PICK s \in Secrets, f \in Fields : k8s' = [k8s EXCEPT ![s][f] = newest + 1]
      BY <2>2 DEF EditSecret
    <3>2. k8s' = [k8s EXCEPT ![s] = [k8s[s] EXCEPT ![f] = newest + 1]]
      BY <3>1
    <3>3. UNCHANGED <<asm, adopted>>
      BY <2>2 DEF EditSecret
    <3> QED
      BY <1>1, <1>2, <1>3, <3>2, <3>3 DEF TypeOK, ValuesExist
  <2> QED
    BY <2>1, <2>2 DEF HandNext, ByHand
<1>5. TypeOK'
  <2>1. newest' \in Nat /\ mig' \in Migration /\ adopted' \in BOOLEAN
    BY <1>1, <1>4 DEF TypeOK
  <2> QED
    BY <1>1, <1>4, <2>1 DEF TypeOK
<1>6. ValuesExist'
  BY <1>1, <1>2, <1>4 DEF ValuesExist
<1> QED
  BY <1>1, <1>5, <1>6 DEF MInv, CalmEqual, CopiedBehind, CleanMigrationCopies

(* A refresh copies one secret back.                                       *)
LEMMA SyncNextKeeps == ASSUME MInv, NEW s \in Secrets, SyncNext(s) PROVE MInv'
<1>1. /\ TypeOK /\ ValuesExist /\ adopted
      /\ k8s' = [k8s EXCEPT ![s] = asm[s]]
      /\ UNCHANGED <<asm, adopted, newest, mig, calm, quiet, settled>>
  BY DEF MInv, SyncNext, RefreshSecret, migVars
<1>2. TypeOK'
  BY <1>1 DEF TypeOK
<1>3. ValuesExist'
  BY <1>1 DEF ValuesExist, TypeOK, Bounded
<1>4. CalmEqual'
  <2>1. calm => k8s' = k8s
    BY <1>1 DEF MInv, CalmEqual, TypeOK
  <2> QED
    BY <1>1, <2>1 DEF MInv, CalmEqual
<1> QED
  BY <1>1, <1>2, <1>3, <1>4 DEF MInv, CopiedBehind, CleanMigrationCopies

(* The invariant is inductive.                                             *)
LEMMA NextKeeps == MInv /\ [Next]_vars => MInv'
<1> SUFFICES ASSUME MInv, [Next]_vars PROVE MInv'
  OBVIOUS
<1>1. CASE Adopt /\ UNCHANGED migVars
  BY <1>1 DEF Adopt, migVars, MInv, TypeOK, ValuesExist, Bounded, CalmEqual,
    CopiedBehind, CleanMigrationCopies
<1>2. CASE UNCHANGED vars
  BY <1>2 DEF vars, storeVars, migVars, MInv, TypeOK, ValuesExist, Bounded, CalmEqual,
    CopiedBehind, CleanMigrationCopies
<1> QED
  BY <1>1, <1>2, MigNextKeeps, HandNextKeeps, SyncNextKeeps DEF Next

(* It holds in every reachable state.                                      *)
THEOREM MigrationInvariant == Spec => []MInv
  BY InitHolds, NextKeeps, PTL DEF Spec

(* Every value a run carries is one that exists, and its state is sound.   *)
THEOREM TypeAlways == Spec => []TypeOK
<1>1. MInv => TypeOK
  BY DEF MInv
<1> QED
  BY MigrationInvariant, <1>1, PTL

(* Before the ExternalSecrets are applied, a run that exits 0 undisturbed  *)
(* has copied every Secret, whatever earlier runs left behind.             *)
THEOREM CleanMigrationCopiesAlways == Spec => []CleanMigrationCopies
<1>1. MInv => CleanMigrationCopies
  BY DEF MInv, CopiedBehind
<1> QED
  BY MigrationInvariant, <1>1, PTL

(* A run between two equal sides changes no value in ASM.                  *)
THEOREM SyncedRunIsNoOpAlways == Spec => SyncedRunIsNoOp
<1>1. MInv /\ [Next]_vars => [MigNext /\ calm => asm' = asm]_vars
  <2> SUFFICES ASSUME MInv, MigNext, calm PROVE asm' = asm
    OBVIOUS
  <2>1. CASE mig.at \in Busy /\ Copies
    <3>1. asm = k8s /\ mig.got = k8s[mig.cur] /\ asm' = [asm EXCEPT ![mig.cur] = mig.got]
      BY <2>1 DEF MInv, CalmEqual, Copies
    <3> QED
      BY <3>1 DEF MInv, TypeOK
  <2> QED
    BY <2>1 DEF MigNext, MigStep, MigStart, ReadSecret, DescribeSecret, PutSecret,
      CreateAsmSecret, MigExit, MigCrash, storeVars, Busy
<1> QED
  BY MigrationInvariant, <1>1, PTL DEF Spec, SyncedRunIsNoOp

(* The script is one of the writers SecretStore allows: it writes one      *)
(* secret at a time, of values that exist.                                 *)
THEOREM WritesLikeAScriptAlways == Spec => WritesLikeAScript
<1>1. MInv /\ [Next]_vars => [StoreNext]_storeVars
  <2> SUFFICES ASSUME MInv, Next PROVE StoreNext \/ UNCHANGED storeVars
    BY DEF vars
  <2>1. CASE mig.at \in Busy /\ Copies
    <3>1. mig.cur \in Secrets /\ mig.got \in [Fields -> 0 .. newest] \ {Nothing}
      BY <2>1 DEF MInv, ValuesExist, Bounded
    <3> QED
      BY <2>1, <3>1 DEF Copies, WriteAsm, StoreNext
  <2>2. CASE MigNext
    BY <2>1, <2>2 DEF MigNext, MigStep, MigStart, ReadSecret, DescribeSecret, PutSecret,
      CreateAsmSecret, MigExit, MigCrash, Busy
  <2>3. CASE ~MigNext
    BY <2>3 DEF Next, HandNext, SyncNext, StoreNext, Operator
  <2> QED
    BY <2>2, <2>3
<1>2. Init => StoreInit
  BY DEF Init
<1> QED
  BY MigrationInvariant, <1>1, <1>2, PTL DEF Spec, WritesLikeAScript, StoreSpec
=============================================================================
