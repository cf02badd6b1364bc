----------------------------- MODULE PlugEeprom -----------------------------
(***************************************************************************)
(* The settings store: the EEPROM emulation of lib/eeprom/EEPROM2.cpp and  *)
(* the Memo* functions of common.h through which every task of the         *)
(* firmware writes it.                                                     *)
(*                                                                         *)
(* The emulation keeps a RAM image `data' and a flag `dirty' that every    *)
(* task shares without a lock, and publishes the whole image as one NVS    *)
(* blob, `flash', in commit().  A blob is replaced atomically, so a power  *)
(* cut leaves the previous blob or the new one.  write(), the dirty flag,  *)
(* the test in commit(), the blob call and the clearing of the flag are    *)
(* separate steps here, because another task can run between any two.      *)
(***************************************************************************)
EXTENDS Naturals, Sequences

CONSTANTS Thread,   \* the tasks that use the store
          Size,     \* EEPROM_SIZE
          Byte,     \* the values a cell can hold
          Call,     \* the calls the tasks make: records [ws, each]
          BlobMayFail  \* whether NVS can refuse a blob

ASSUME SizeAssumption == Size \in Nat

ASSUME FailAssumption == BlobMayFail \in BOOLEAN

(* A store request: an address and a value.  Addresses run one past the    *)
(* image because MemoClean's default range ends at EEPROM_SIZE inclusive.  *)
Request == (0 .. Size) \X Byte

ASSUME CallAssumption ==
    Call \subseteq [ws : Seq(Request) \ {<<>>}, each : BOOLEAN]

VARIABLES data,    \* _data: the RAM image
          dirty,   \* _dirty
          flash,   \* the NVS blob
          nvs,     \* the set of tasks inside nvs_set_blob (NVS serialises them)
          mpc,     \* where each task is inside a Memo* call
          todo,    \* the stores its call has still to do
          each,    \* whether its call commits after every store
          snap,    \* the image nvs_set_blob is writing, flash when nobody is in it
          raced,   \* history: two calls have overlapped since power-on
          alone    \* history: the tasks no call has overlapped since theirs began

ghosts == <<raced, alone>>
call   == <<nvs, todo, each, snap, ghosts>>
store  == <<data, dirty, flash, mpc, call>>

Image == [0 .. Size - 1 -> Byte]

----------------------------------------------------------------------------
(* The calls.                                                              *)

ByteCall(a, v) == [ws |-> <<<<a, v>>>>, each |-> FALSE]

(* MemoWriteString fills its field from the string and pads it with zeros; *)
(* what does not fit is cut off.                                           *)
StringCall(first, last, val) ==
    [ws |-> [i \in 1 .. (last - first + 1) |->
                <<first + i - 1, IF i <= Len(val) THEN val[i] ELSE 0>>],
     each |-> FALSE]

(* MemoClean writes 0xFF and commits byte by byte, both ends included.     *)
CleanCall(first, last) ==
    [ws |-> [i \in 1 .. (last - first + 1) |-> <<first + i - 1, 255>>],
     each |-> TRUE]

Busy(t) == mpc[t] # "idle"
Quiet   == \A t \in Thread : ~Busy(t)

Invoke(t, c) ==
    /\ mpc[t] = "idle"
    /\ mpc' = [mpc EXCEPT ![t] = "store"]
    /\ todo' = [todo EXCEPT ![t] = c.ws]
    /\ each' = [each EXCEPT ![t] = c.each]
    /\ LET others == {u \in Thread \ {t} : Busy(u)}
       IN  /\ raced' = (raced \/ others # {})
           /\ alone' = IF others = {} THEN {t} ELSE {}
    /\ UNCHANGED <<data, dirty, flash, nvs, snap>>

(* Mutant: every store is committed on its own.                            *)
AfterStoreEach(t, rest) == "test"

(* Where a task goes after a store, and after a commit.                    *)
AfterStore(t, rest) == IF each[t] \/ rest = <<>> THEN "test" ELSE "store"
AfterCommit(t)      == IF todo[t] = <<>> THEN "idle" ELSE "store"

----------------------------------------------------------------------------
(* Mutant: write() without its range check.                                *)
StoreUnchecked(t) ==
    LET a == Head(todo[t])[1]
        v == Head(todo[t])[2]
    IN  /\ mpc[t] = "store"
        /\ data' = [i \in DOMAIN data \cup {a} |-> IF i = a THEN v ELSE data[i]]
        /\ mpc' = [mpc EXCEPT ![t] = "mark"]
        /\ todo' = [todo EXCEPT ![t] = Tail(@)]
        /\ UNCHANGED <<dirty, flash, nvs, each, snap, ghosts>>

(* EEPROMClass::write: out of range is ignored, an equal byte is not a     *)
(* change, and a change is stored before the flag is raised.               *)

Store(t) ==
    LET a    == Head(todo[t])[1]
        v    == Head(todo[t])[2]
        rest == Tail(todo[t])
        same == a >= Size \/ data[a] = v
    IN  /\ mpc[t] = "store"
        /\ data' = IF same THEN data ELSE [data EXCEPT ![a] = v]
        /\ mpc' = [mpc EXCEPT ![t] = IF same THEN AfterStore(t, rest) ELSE "mark"]
        /\ todo' = [todo EXCEPT ![t] = rest]
        /\ UNCHANGED <<dirty, flash, nvs, each, snap, ghosts>>

Mark(t) ==
    /\ mpc[t] = "mark"
    /\ dirty' = TRUE
    /\ mpc' = [mpc EXCEPT ![t] = AfterStore(t, todo[t])]
    /\ UNCHANGED <<data, flash, call>>

(* EEPROMClass::commit: nothing to do unless dirty; the flag is cleared    *)
(* only after the blob call has succeeded.                                 *)

CommitTest(t) ==
    /\ mpc[t] = "test"
    /\ mpc' = [mpc EXCEPT ![t] = IF dirty THEN "blob" ELSE AfterCommit(t)]
    /\ UNCHANGED <<data, dirty, flash, call>>

(* Mutant: the blob is one byte short.                                     *)
SetBlobShort(t) ==
    /\ mpc[t] = "blob"
    /\ nvs = {}
    /\ nvs' = {t}
    /\ snap' = [data EXCEPT ![Size - 1] = flash[Size - 1]]
    /\ mpc' = [mpc EXCEPT ![t] = "publish"]
    /\ UNCHANGED <<data, dirty, flash, todo, each, ghosts>>

SetBlob(t) ==
    /\ mpc[t] = "blob"
    /\ nvs = {}
    /\ nvs' = {t}
    /\ snap' = data
    /\ mpc' = [mpc EXCEPT ![t] = "publish"]
    /\ UNCHANGED <<data, dirty, flash, todo, each, ghosts>>

Publish(t) ==
    /\ mpc[t] = "publish"
    /\ flash' = snap
    /\ nvs' = {}
    /\ mpc' = [mpc EXCEPT ![t] = "clear"]
    /\ UNCHANGED <<data, dirty, todo, each, snap, ghosts>>

(* Mutants: an error clears the flag all the same; an error keeps the lock. *)
PublishFailsForgets(t) ==
    /\ BlobMayFail
    /\ mpc[t] = "publish"
    /\ nvs' = {}
    /\ snap' = flash
    /\ mpc' = [mpc EXCEPT ![t] = "clear"]
    /\ UNCHANGED <<data, dirty, flash, todo, each, ghosts>>

PublishFailsLocked(t) ==
    /\ BlobMayFail
    /\ mpc[t] = "publish"
    /\ snap' = flash
    /\ mpc' = [mpc EXCEPT ![t] = AfterCommit(t)]
    /\ UNCHANGED <<data, dirty, flash, nvs, todo, each, ghosts>>

(* nvs_set_blob returns an error (no free page): commit() logs it and      *)
(* returns false, which no caller looks at.                                *)
PublishFails(t) ==
    /\ BlobMayFail
    /\ mpc[t] = "publish"
    /\ nvs' = {}
    /\ snap' = flash
    /\ mpc' = [mpc EXCEPT ![t] = AfterCommit(t)]
    /\ UNCHANGED <<data, dirty, flash, todo, each, ghosts>>

Clear(t) ==
    /\ mpc[t] = "clear"
    /\ dirty' = FALSE
    /\ mpc' = [mpc EXCEPT ![t] = AfterCommit(t)]
    /\ UNCHANGED <<data, flash, call>>

(* Power is lost at any point; begin() reloads the image from the blob.    *)
PowerCut ==
    /\ data' = flash
    /\ dirty' = FALSE
    /\ nvs' = {}
    /\ mpc' = [t \in Thread |-> "idle"]
    /\ todo' = [t \in Thread |-> <<>>]
    /\ each' = [t \in Thread |-> FALSE]
    /\ raced' = FALSE
    /\ alone' = {}
    /\ snap' = flash
    /\ UNCHANGED flash

----------------------------------------------------------------------------
InitFrom(image) ==
    /\ data = image
    /\ dirty = FALSE
    /\ flash = image
    /\ nvs = {}
    /\ mpc = [t \in Thread |-> "idle"]
    /\ todo = [t \in Thread |-> <<>>]
    /\ each = [t \in Thread |-> FALSE]
    /\ snap = image
    /\ raced = FALSE
    /\ alone = {}

Init == \E image \in Image : InitFrom(image)

Progress(t) ==
    \/ Store(t)
    \/ Mark(t)
    \/ CommitTest(t)
    \/ SetBlob(t)
    \/ Publish(t)
    \/ PublishFails(t)
    \/ Clear(t)

Next ==
    \/ \E t \in Thread, c \in Call : Invoke(t, c)
    \/ \E t \in Thread : Progress(t)
    \/ PowerCut

Spec == Init /\ [][Next]_store

(* Every task keeps running inside a call, because the scheduler is        *)
(* preemptive and MemoWriteByte sleeps; the NVS mutex serves its waiters,  *)
(* so a task that finds it free again and again gets it.                   *)
Fairness ==
    \A t \in Thread :
        /\ WF_store(Store(t) \/ Mark(t) \/ CommitTest(t))
        /\ WF_store(Publish(t) \/ PublishFails(t) \/ Clear(t))
        /\ SF_store(SetBlob(t))

FairSpec == Spec /\ Fairness

----------------------------------------------------------------------------
(* Properties.                                                             *)

Phase == {"idle", "store", "mark", "test", "blob", "publish", "clear"}

TypeOK ==
    /\ data \in Image
    /\ flash \in Image
    /\ dirty \in BOOLEAN
    /\ nvs \subseteq Thread
    /\ mpc \in [Thread -> Phase]
    /\ todo \in [Thread -> Seq(Request)]
    /\ each \in [Thread -> BOOLEAN]
    /\ snap \in Image
    /\ raced \in BOOLEAN
    /\ alone \subseteq Thread

(* As long as no two calls have overlapped since power-on, a clean flag    *)
(* means that the image is on flash: commit() never skips a change and     *)
(* never forgets one whose blob call failed.  (EEPROM2.cpp write, commit)  *)
DirtyTruthful ==
    ~raced /\ ~dirty /\ (\A t \in Thread : mpc[t] # "mark") => flash = data

(* Whatever overlapped before, a call that changed a byte and ran alone    *)
(* publishes the whole image: it also repairs the changes an earlier race  *)
(* left in RAM only.  (EEPROM2.cpp commit)                                 *)
AloneCallRepairs ==
    [][\A t \in alone : mpc[t] = "clear" /\ mpc'[t] # "clear" => flash' = data']_store

(* The fields of the image: cells that each call either leaves alone or    *)
(* writes together, one value to each, with the commit at the end.         *)
Written(c) == {c.ws[i] : i \in DOMAIN c.ws}
Touches(c, F) == \E w \in Written(c) : w[1] \in F

Fields ==
    {F \in SUBSET (0 .. Size - 1) :
        \A c \in Call : Touches(c, F) =>
            /\ ~c.each
            /\ \A a \in F : \E v \in Byte : {w \in Written(c) : w[1] = a} = {<<a, v>>}}

(* What a field holds, and what the calls can put there.                   *)
Part(image, F) == [a \in F |-> image[a]]
Given(c, F) == [a \in F |-> CHOOSE v \in Byte : <<a, v>> \in Written(c)]
Contents(F) == {Given(c, F) : c \in {d \in Call : Touches(d, F)}}

(* A string is published whole: without overlapping calls, the flash never *)
(* shows a field that is part one string and part another, even though     *)
(* MemoWriteString stores it byte by byte and any call's commit publishes  *)
(* all of the image.  (common.h MemoWriteString, EEPROM2.cpp commit)       *)
StringsNeverTorn ==
    [][~raced => \A F \in Fields :
          Part(flash', F) # Part(flash, F) => Part(flash', F) \in Contents(F)]_store

(* Every Memo* call returns: the NVS lock is released on success and on    *)
(* error.  (EEPROM2.cpp commit, MemoWriteByte in common.h)                 *)
CallsReturn == \A t \in Thread : Busy(t) ~> ~Busy(t)
=============================================================================
