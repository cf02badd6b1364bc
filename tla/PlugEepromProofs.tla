-------------------------- MODULE PlugEepromProofs --------------------------
(***************************************************************************)
(* What the settings store guarantees for any number of tasks, any image   *)
(* size and any set of calls.                                              *)
(***************************************************************************)
EXTENDS PlugEeprom, SequenceTheorems, TLAPS

(* A task about to store has something left to store.                      *)
StoresPending == \A t \in Thread : mpc[t] = "store" => todo[t] # <<>>

TypeInv == TypeOK /\ StoresPending

LEMMA RequestTail ==
    ASSUME NEW s \in Seq(Request), s # <<>>
    PROVE  /\ Head(s)[1] \in 0 .. Size
           /\ Head(s)[2] \in Byte
           /\ Tail(s) \in Seq(Request)
  <1>1. Head(s) \in Request /\ Tail(s) \in Seq(Request)
    BY HeadTailProperties
  <1> QED
    BY <1>1 DEF Request

LEMMA InitTyped == Init => TypeInv
  <1> SUFFICES ASSUME NEW image \in Image, InitFrom(image)
               PROVE  TypeInv
    BY DEF Init
  <1>1. <<>> \in Seq(Request)
    OBVIOUS
  <1>2. mpc \in [Thread -> Phase] /\ todo \in [Thread -> Seq(Request)]
    BY <1>1 DEF InitFrom, Phase
  <1>3. each \in [Thread -> BOOLEAN]
    BY DEF InitFrom
  <1> QED
    BY <1>2, <1>3 DEF InitFrom, TypeInv, TypeOK, StoresPending

LEMMA NextTyped == TypeInv /\ [Next]_store => TypeInv'
  <1> SUFFICES ASSUME TypeInv, [Next]_store
               PROVE  TypeInv'
    OBVIOUS
  <1> USE DEF TypeInv, TypeOK, StoresPending, Phase
  <1>1. ASSUME NEW t \in Thread, NEW c \in Call, Invoke(t, c)
        PROVE  TypeInv'
    <2>1. c.ws \in Seq(Request) /\ c.ws # <<>> /\ c.each \in BOOLEAN
      BY CallAssumption
    <2>2. alone' \subseteq Thread /\ raced' \in BOOLEAN
      BY <1>1 DEF Invoke
    <2> QED
      BY <1>1, <2>1, <2>2 DEF Invoke
  <1>2. ASSUME NEW t \in Thread, Store(t)
        PROVE  TypeInv'
    <2>1. /\ Head(todo[t])[1] \in 0 .. Size
          /\ Head(todo[t])[2] \in Byte
          /\ Tail(todo[t]) \in Seq(Request)
      BY <1>2, RequestTail DEF Store
    <2>2. data' \in Image
      BY <1>2, <2>1, SizeAssumption DEF Store, Image
    <2>3. mpc' \in [Thread -> Phase] /\ todo' \in [Thread -> Seq(Request)]
      BY <1>2, <2>1 DEF Store, AfterStore
    <2>4. StoresPending'
      BY <1>2 DEF Store, AfterStore
    <2> QED
      BY <1>2, <2>2, <2>3, <2>4 DEF Store, ghosts
  <1>3. ASSUME NEW t \in Thread, Mark(t)
        PROVE  TypeInv'
    BY <1>3 DEF Mark, AfterStore, call, ghosts
  <1>4. ASSUME NEW t \in Thread, CommitTest(t)
        PROVE  TypeInv'
    BY <1>4 DEF CommitTest, AfterCommit, call, ghosts
  <1>5. ASSUME NEW t \in Thread, SetBlob(t)
        PROVE  TypeInv'
    BY <1>5 DEF SetBlob, ghosts
  <1>6. ASSUME NEW t \in Thread, Publish(t)
        PROVE  TypeInv'
    BY <1>6 DEF Publish, ghosts
  <1>7. ASSUME NEW t \in Thread, PublishFails(t)
        PROVE  TypeInv'
    BY <1>7 DEF PublishFails, AfterCommit, ghosts
  <1>8. ASSUME NEW t \in Thread, Clear(t)
        PROVE  TypeInv'
    BY <1>8 DEF Clear, AfterCommit, call, ghosts
  <1>9. ASSUME PowerCut
        PROVE  TypeInv'
    <2>1. <<>> \in Seq(Request)
      OBVIOUS
    <2>2. mpc' \in [Thread -> Phase] /\ todo' \in [Thread -> Seq(Request)]
      BY <1>9, <2>1 DEF PowerCut
    <2>3. each' \in [Thread -> BOOLEAN]
      BY <1>9 DEF PowerCut
    <2> QED
      BY <1>9, <2>2, <2>3 DEF PowerCut
  <1>10. CASE UNCHANGED store
    BY <1>10 DEF store, call, ghosts
  <1> QED
    BY <1>1, <1>2, <1>3, <1>4, <1>5, <1>6, <1>7, <1>8, <1>9, <1>10
    DEF Next, Progress

(* Every state of the store is well typed: images keep their size and      *)
(* their byte values whatever is written, out-of-range writes included.    *)
(* (EEPROM2.cpp write)                                                     *)
THEOREM Typed == Spec => []TypeOK
  <1>1. TypeInv => TypeOK
    BY DEF TypeInv
  <1> QED
    BY <1>1, InitTyped, NextTyped, PTL DEF Spec

----------------------------------------------------------------------------
(* The strengthening of DirtyTruthful.  A task nobody overlapped is the    *)
(* only one inside a call, so the image its blob call took is still the    *)
(* RAM image, and what it published is what RAM holds.                     *)

Solitary  == \A t \in alone : \A u \in Thread \ {t} : ~Busy(u)
Snapped   == \A t \in alone : mpc[t] = "publish" => snap = data
Published == \A t \in alone : mpc[t] = "clear" => flash = data
NoRace    == ~raced => \A t \in Thread : Busy(t) => t \in alone

StoreInv == TypeInv /\ Solitary /\ Snapped /\ Published /\ NoRace /\ DirtyTruthful

LEMMA InitStoreInv == Init => StoreInv
  <1>1. Init => TypeInv
    BY InitTyped
  <1>2. ASSUME NEW image \in Image, InitFrom(image)
        PROVE  Solitary /\ Snapped /\ Published /\ NoRace /\ DirtyTruthful
    BY <1>2 DEF InitFrom, Solitary, Snapped, Published, NoRace, DirtyTruthful, Busy
  <1> QED
    BY <1>1, <1>2 DEF Init, StoreInv

LEMMA NextStoreInv == StoreInv /\ [Next]_store => StoreInv'
  <1> SUFFICES ASSUME StoreInv, [Next]_store
               PROVE  StoreInv'
    OBVIOUS
  <1>0. TypeInv'
    BY NextTyped DEF StoreInv
  <1> DEFINE Goal == (Solitary /\ Snapped /\ Published /\ NoRace /\ DirtyTruthful)'
  <1> USE DEF StoreInv, TypeInv, TypeOK, Solitary, Snapped, Published, NoRace,
              DirtyTruthful, Busy
  <1>1. ASSUME NEW t \in Thread, NEW c \in Call, Invoke(t, c)
        PROVE  Goal
    <2> DEFINE others == {u \in Thread \ {t} : mpc[u] # "idle"}
    <2>1. alone' = (IF others = {} THEN {t} ELSE {}) /\ raced' = (raced \/ others # {})
      BY <1>1 DEF Invoke
    <2>2. /\ mpc[t] = "idle" /\ mpc' = [mpc EXCEPT ![t] = "store"]
          /\ UNCHANGED <<data, dirty, flash, snap>>
      BY <1>1 DEF Invoke
    <2>3. CASE others = {}
      <3>1. alone' = {t} /\ raced' = raced
        BY <2>1, <2>3
      <3>2. \A u \in Thread \ {t} : mpc[u] = "idle"
        BY <2>3
      <3> HIDE DEF others
      <3> QED
        BY <2>2, <3>1, <3>2
    <2>4. CASE others # {}
      <3>1. alone' = {} /\ raced' = TRUE
        BY <2>1, <2>4
      <3> QED
        BY <3>1
    <2> QED
      BY <2>3, <2>4
  <1>2. ASSUME NEW t \in Thread, Store(t)
        PROVE  Goal
    BY <1>2 DEF Store, AfterStore, ghosts
  <1>3. ASSUME NEW t \in Thread, Mark(t)
        PROVE  Goal
    BY <1>3 DEF Mark, AfterStore, call, ghosts
  <1>4. ASSUME NEW t \in Thread, CommitTest(t)
        PROVE  Goal
    BY <1>4 DEF CommitTest, AfterCommit, call, ghosts
  <1>5. ASSUME NEW t \in Thread, SetBlob(t)
        PROVE  Goal
    BY <1>5 DEF SetBlob, ghosts
  <1>6. ASSUME NEW t \in Thread, Publish(t)
        PROVE  Goal
    BY <1>6 DEF Publish, ghosts
  <1>7. ASSUME NEW t \in Thread, PublishFails(t)
        PROVE  Goal
    BY <1>7 DEF PublishFails, AfterCommit, ghosts
  <1>8. ASSUME NEW t \in Thread, Clear(t)
        PROVE  Goal
    BY <1>8 DEF Clear, AfterCommit, call, ghosts
  <1>9. ASSUME PowerCut
        PROVE  Goal
    BY <1>9 DEF PowerCut
  <1>10. ASSUME UNCHANGED store
         PROVE  Goal
    BY <1>10 DEF store, call, ghosts
  <1>11. Goal
    BY <1>1, <1>2, <1>3, <1>4, <1>5, <1>6, <1>7, <1>8, <1>9, <1>10
    DEF Next, Progress
  <1> QED
    BY <1>0, <1>11

(* Without overlapping calls since power-on, a clean flag means that what  *)
(* RAM holds is on flash, for any number of tasks and any calls.           *)
(* (EEPROM2.cpp write, commit)                                             *)
THEOREM FlagIsTruthful == Spec => []DirtyTruthful
  <1>1. StoreInv => DirtyTruthful
    BY DEF StoreInv
  <1> QED
    BY <1>1, InitStoreInv, NextStoreInv, PTL DEF Spec

(* A call that changed a byte and that nobody overlapped leaves the whole  *)
(* image on flash, whatever earlier races had left in RAM only.            *)
(* (EEPROM2.cpp commit)                                                    *)
THEOREM Repair == Spec => AloneCallRepairs
  <1> DEFINE Repaired ==
        \A t \in alone : mpc[t] = "clear" /\ mpc'[t] # "clear" => flash' = data'
  <1>1. StoreInv /\ [Next]_store => [Repaired]_store
    <2> SUFFICES ASSUME StoreInv, [Next]_store,
                        NEW t \in alone, mpc[t] = "clear", mpc'[t] # "clear"
                 PROVE  flash' = data'
      OBVIOUS
    <2>0. t \in Thread /\ flash = data /\ \A u \in Thread \ {t} : mpc[u] = "idle"
      BY DEF StoreInv, TypeInv, TypeOK, Solitary, Published, Busy
    <2>1. ASSUME NEW u \in Thread, Progress(u)
          PROVE  flash' = data'
      <3>1. CASE u = t
        BY <2>0, <2>1, <3>1 DEF Progress, Store, Mark, CommitTest, SetBlob, Publish,
           PublishFails, Clear
      <3>2. CASE u # t
        BY <2>0, <2>1, <3>2 DEF Progress, Store, Mark, CommitTest, SetBlob, Publish,
           PublishFails, Clear
      <3> QED
        BY <3>1, <3>2
    <2>2. ASSUME NEW u \in Thread, NEW c \in Call, Invoke(u, c)
          PROVE  flash' = data'
      BY <2>0, <2>2 DEF Invoke
    <2>3. PowerCut => flash' = data'
      BY DEF PowerCut
    <2>4. UNCHANGED store => flash' = data'
      BY <2>0 DEF store
    <2> QED
      BY <2>1, <2>2, <2>3, <2>4 DEF Next
  <1> QED
    BY <1>1, InitStoreInv, NextStoreInv, PTL DEF Spec, AloneCallRepairs

----------------------------------------------------------------------------
(* The strengthening of StringsNeverTorn.  While no calls have overlapped, *)
(* a field in RAM is whole, or the one call under way has begun to write   *)
(* it: then each cell has its new value or still gets it, and nothing is   *)
(* published before the last one has it.                                   *)

Items(s) == {s[i] : i \in DOMAIN s}
Left(t)  == Items(todo[t])

(* Nothing is left of a call that commits at its end when it commits.      *)
Committing == {"test", "blob", "publish", "clear"}
Ended ==
    \A t \in Thread :
        mpc[t] = "idle" \/ (~each[t] /\ mpc[t] \in Committing) => todo[t] = <<>>

(* What is left of a task's call gives a cell the value v.                 *)
Gets(t, a, v) ==
    /\ \A w \in Left(t) : w[1] = a => w[2] = v
    /\ data[a] = v \/ \E w \in Left(t) : w[1] = a

Settled(F) ==
    /\ \A t \in Thread : \A w \in Left(t) : w[1] \notin F
    /\ Part(data, F) \in Contents(F) \cup {Part(flash, F)}

Filling(F) ==
    \E t \in Thread : \E s \in Contents(F) :
        /\ Busy(t) /\ ~each[t]
        /\ \A a \in F : Gets(t, a, s[a])

FieldInv ==
    /\ StoreInv
    /\ Ended
    /\ ~raced => \A F \in Fields : Settled(F) \/ Filling(F)

LEMMA NothingLeft == Items(<<>>) = {}
  <1>1. DOMAIN <<>> = {}
    OBVIOUS
  <1> QED
    BY <1>1 DEF Items

LEMMA LeftStore ==
    ASSUME TypeInv, NEW t \in Thread, Store(t)
    PROVE  /\ Left(t) = {Head(todo[t])} \cup Left(t)'
           /\ \A u \in Thread \ {t} : Left(u)' = Left(u)
  <1>1. /\ todo[t] \in Seq(Request) /\ todo[t] # <<>>
        /\ todo' = [todo EXCEPT ![t] = Tail(todo[t])]
        /\ todo \in [Thread -> Seq(Request)]
    BY DEF TypeInv, TypeOK, StoresPending, Store
  <1> DEFINE s == todo[t]
  <1>2. /\ Len(s) \in Nat /\ Len(s) >= 1 /\ DOMAIN s = 1 .. Len(s)
        /\ Head(s) = s[1]
        /\ Len(Tail(s)) = Len(s) - 1 /\ DOMAIN Tail(s) = 1 .. Len(s) - 1
        /\ \A i \in 1 .. Len(s) - 1 : Tail(s)[i] = s[i + 1]
    BY <1>1
  <1>3. Left(t)' = {Tail(s)[i] : i \in 1 .. Len(s) - 1}
    BY <1>1, <1>2 DEF Left, Items
  <1>4. Left(t) = {s[i] : i \in 1 .. Len(s)}
    BY <1>2 DEF Left, Items
  <1> HIDE DEF s
  <1>5. {s[i] : i \in 1 .. Len(s)} = {s[1]} \cup {Tail(s)[i] : i \in 1 .. Len(s) - 1}
    <2>1. ASSUME NEW i \in 1 .. Len(s)
          PROVE  s[i] = s[1] \/ \E j \in 1 .. Len(s) - 1 : s[i] = Tail(s)[j]
      <3>1. CASE i = 1
        BY <3>1
      <3>2. CASE i # 1
        <4>1. i - 1 \in 1 .. Len(s) - 1 /\ Tail(s)[i - 1] = s[i]
          BY <1>2, <3>2
        <4> QED
          BY <4>1
      <3> QED
        BY <3>1, <3>2
    <2>2. ASSUME NEW j \in 1 .. Len(s) - 1
          PROVE  j + 1 \in 1 .. Len(s) /\ Tail(s)[j] = s[j + 1]
      BY <1>2
    <2>3. 1 \in 1 .. Len(s)
      BY <1>2
    <2> QED
      BY <2>1, <2>2, <2>3
  <1>6. Left(t) = {Head(todo[t])} \cup Left(t)'
    BY <1>2, <1>3, <1>4, <1>5 DEF s
  <1>7. \A u \in Thread \ {t} : Left(u)' = Left(u)
    BY <1>1 DEF Left
  <1> QED
    BY <1>6, <1>7

(* A call that touches a field gives each of its cells one value.          *)
LEMMA CallFills ==
    ASSUME NEW F \in Fields, NEW c \in Call, Touches(c, F)
    PROVE  /\ ~c.each
           /\ \E s \in Contents(F) :
                \A a \in F : /\ <<a, s[a]>> \in Written(c)
                             /\ \A w \in Written(c) : w[1] = a => w[2] = s[a]
  <1> DEFINE s == Given(c, F)
  <1>1. s \in Contents(F)
    <2>1. c \in {d \in Call : Touches(d, F)}
      OBVIOUS
    <2> QED
      BY <2>1 DEF Contents
  <1>2. /\ ~c.each
        /\ \A a \in F : \E v \in Byte : {w \in Written(c) : w[1] = a} = {<<a, v>>}
    BY DEF Fields
  <1>3. ASSUME NEW a \in F
        PROVE  /\ <<a, s[a]>> \in Written(c)
               /\ \A w \in Written(c) : w[1] = a => w[2] = s[a]
    <2>1. PICK v \in Byte : {w \in Written(c) : w[1] = a} = {<<a, v>>}
      BY <1>2
    <2>2. <<a, v>> \in Written(c)
      BY <2>1
    <2>3. ASSUME NEW x \in Byte, <<a, x>> \in Written(c)
          PROVE  x = v
      <3>1. <<a, x>> \in {w \in Written(c) : w[1] = a}
        BY <2>3
      <3> QED
        BY <2>1, <3>1
    <2>4. (CHOOSE x \in Byte : <<a, x>> \in Written(c)) = v
      BY <2>2, <2>3
    <2>5. s[a] = v
      BY <2>4 DEF Given
    <2>6. ASSUME NEW w \in Written(c), w[1] = a
          PROVE  w[2] = v
      <3>1. w = <<a, v>>
        BY <2>1, <2>6
      <3> QED
        BY <3>1
    <2> QED
      BY <2>2, <2>5, <2>6
  <1> HIDE DEF s
  <1> QED
    BY <1>1, <1>2, <1>3

LEMMA InitFieldInv == Init => FieldInv
  <1> SUFFICES ASSUME NEW image \in Image, InitFrom(image)
               PROVE  FieldInv
    BY DEF Init
  <1>1. StoreInv
    BY InitStoreInv DEF Init
  <1>2. Ended
    BY DEF InitFrom, Ended
  <1>3. \A t \in Thread : Left(t) = {}
    BY NothingLeft DEF InitFrom, Left
  <1>4. \A F \in Fields : Settled(F)
    BY <1>3 DEF InitFrom, Settled, Part
  <1> QED
    BY <1>1, <1>2, <1>4 DEF FieldInv

LEMMA NextEnded == StoreInv /\ Ended /\ [Next]_store => Ended'
  <1> SUFFICES ASSUME StoreInv, Ended, [Next]_store
               PROVE  Ended'
    OBVIOUS
  <1> USE DEF StoreInv, TypeInv, TypeOK, Ended, Committing
  <1>1. ASSUME NEW t \in Thread, NEW c \in Call, Invoke(t, c)
        PROVE  Ended'
    BY <1>1 DEF Invoke
  <1>2. ASSUME NEW t \in Thread, Store(t)
        PROVE  Ended'
    BY <1>2 DEF Store, AfterStore, ghosts
  <1>3. ASSUME NEW t \in Thread, Mark(t)
        PROVE  Ended'
    BY <1>3 DEF Mark, AfterStore, call, ghosts
  <1>4. ASSUME NEW t \in Thread, CommitTest(t)
        PROVE  Ended'
    BY <1>4 DEF CommitTest, AfterCommit, call, ghosts
  <1>5. ASSUME NEW t \in Thread, SetBlob(t)
        PROVE  Ended'
    BY <1>5 DEF SetBlob, ghosts
  <1>6. ASSUME NEW t \in Thread, Publish(t)
        PROVE  Ended'
    BY <1>6 DEF Publish, ghosts
  <1>7. ASSUME NEW t \in Thread, PublishFails(t)
        PROVE  Ended'
    BY <1>7 DEF PublishFails, AfterCommit, ghosts
  <1>8. ASSUME NEW t \in Thread, Clear(t)
        PROVE  Ended'
    BY <1>8 DEF Clear, AfterCommit, call, ghosts
  <1>9. ASSUME PowerCut
        PROVE  Ended'
    BY <1>9 DEF PowerCut
  <1>10. CASE UNCHANGED store
    BY <1>10 DEF store, call, ghosts
  <1> QED
    BY <1>1, <1>2, <1>3, <1>4, <1>5, <1>6, <1>7, <1>8, <1>9, <1>10
    DEF Next, Progress

(* While the calls do not overlap, a task inside a call is alone in one,   *)
(* and nothing is left to any other.                                       *)
LEMMA OthersDone ==
    ASSUME StoreInv, Ended, ~raced, NEW t \in Thread, Busy(t)
    PROVE  \A u \in Thread \ {t} : ~Busy(u) /\ Left(u) = {}
  <1>1. \A u \in Thread \ {t} : ~Busy(u)
    BY DEF StoreInv, NoRace, Solitary
  <1>2. \A u \in Thread \ {t} : todo[u] = <<>>
    BY <1>1 DEF Busy, Ended
  <1> QED
    BY <1>1, <1>2, NothingLeft DEF Left

(* A field that is being written when the image is published has all of    *)
(* its new values.                                                         *)
LEMMA FilledIsWhole ==
    ASSUME StoreInv, Ended, ~raced, NEW F \in Fields, Settled(F) \/ Filling(F),
           NEW t \in Thread, mpc[t] \in Committing
    PROVE  Part(data, F) \in Contents(F) \cup {Part(flash, F)}
  <1>1. CASE Settled(F)
    BY <1>1 DEF Settled
  <1>2. CASE Filling(F)
    <2>1. PICK u \in Thread, s \in Contents(F) :
            Busy(u) /\ ~each[u] /\ \A a \in F : Gets(u, a, s[a])
      BY <1>2 DEF Filling
    <2>2. u = t
      BY <2>1, OthersDone DEF Busy, Committing
    <2>3. Left(u) = {}
      BY <2>1, <2>2, NothingLeft DEF Ended, Left
    <2>4. \A a \in F : data[a] = s[a]
      BY <2>1, <2>3 DEF Gets
    <2>5. s = [a \in F |-> s[a]]
      BY DEF Contents, Given
    <2>6. Part(data, F) = s
      BY <2>4, <2>5 DEF Part
    <2> QED
      BY <2>6
  <1> QED
    BY <1>1, <1>2

LEMMA InvokeKeepsFields ==
    ASSUME FieldInv, NEW t \in Thread, NEW c \in Call, Invoke(t, c), ~raced',
           NEW F \in Fields
    PROVE  Settled(F)' \/ Filling(F)'
  <1>1. StoreInv /\ Ended /\ TypeInv /\ TypeOK
    BY DEF FieldInv, StoreInv, TypeInv
  <1>2. ~raced /\ (\A u \in Thread : mpc[u] = "idle") /\ UNCHANGED <<data, flash>>
    BY DEF Invoke, Busy
  <1>3. \A u \in Thread : Left(u) = {}
    BY <1>1, <1>2, NothingLeft DEF Ended, Left
  <1>4. ~Filling(F)
    BY <1>2 DEF Filling, Busy
  <1>5. Settled(F)
    BY <1>2, <1>4 DEF FieldInv
  <1>6. /\ Left(t)' = Written(c)
        /\ \A u \in Thread \ {t} : Left(u)' = {}
    <2>1. todo' = [todo EXCEPT ![t] = c.ws] /\ todo \in [Thread -> Seq(Request)]
      BY <1>1 DEF Invoke, TypeOK
    <2>2. todo'[t] = c.ws /\ \A u \in Thread \ {t} : todo'[u] = todo[u]
      BY <2>1
    <2>3. Left(t)' = Items(c.ws) /\ \A u \in Thread \ {t} : Left(u)' = Left(u)
      BY <2>2 DEF Left
    <2>4. Items(c.ws) = Written(c)
      BY DEF Items, Written
    <2> QED
      BY <1>3, <2>3, <2>4
  <1>7. Busy(t)' /\ each'[t] = c.each
    BY <1>1 DEF Invoke, Busy, TypeOK
  <1>8. CASE Touches(c, F)
    <2>1. PICK s \in Contents(F) :
            \A a \in F : /\ <<a, s[a]>> \in Written(c)
                         /\ \A w \in Written(c) : w[1] = a => w[2] = s[a]
      BY <1>8, CallFills
    <2>2. ~each'[t]
      BY <1>7, <1>8, CallFills
    <2>3. ASSUME NEW a \in F
          PROVE  Gets(t, a, s[a])'
      <3>1. <<a, s[a]>> \in Left(t)' /\ <<a, s[a]>>[1] = a
        BY <1>6, <2>1
      <3>2. \A w \in Written(c) : w[1] = a => w[2] = s[a]
        BY <2>1
      <3>3. \A w \in Left(t)' : w[1] = a => w[2] = s[a]
        BY <1>6, <3>2
      <3> QED
        BY <3>1, <3>3 DEF Gets
    <2> QED
      BY <1>7, <2>2, <2>3 DEF Filling
  <1>9. CASE ~Touches(c, F)
    <2>1. \A u \in Thread : \A w \in Left(u)' : w[1] \notin F
      BY <1>6, <1>9 DEF Touches
    <2>2. Part(data, F)' = Part(data, F) /\ Part(flash, F)' = Part(flash, F)
      BY <1>2 DEF Part
    <2> QED
      BY <1>5, <2>1, <2>2 DEF Settled
  <1> QED
    BY <1>8, <1>9

LEMMA StoreKeepsFields ==
    ASSUME FieldInv, NEW t \in Thread, Store(t), ~raced', NEW F \in Fields
    PROVE  Settled(F)' \/ Filling(F)'
  <1>1. StoreInv /\ Ended /\ TypeInv /\ TypeOK /\ ~raced /\ Busy(t)
    BY DEF FieldInv, StoreInv, TypeInv, Store, ghosts, Busy
  <1> DEFINE a == Head(todo[t])[1]
             v == Head(todo[t])[2]
  <1>2. /\ Left(t) = {Head(todo[t])} \cup Left(t)'
        /\ \A u \in Thread \ {t} : Left(u)' = Left(u)
    BY <1>1, LeftStore
  <1>3. a \in 0 .. Size /\ data \in Image
    BY <1>1, RequestTail DEF TypeInv, TypeOK, StoresPending, Store
  <1>4. /\ \A b \in 0 .. Size - 1 : data'[b] = IF b = a THEN v ELSE data[b]
        /\ flash' = flash /\ each' = each /\ F \subseteq 0 .. Size - 1
        /\ Head(todo[t]) \in Left(t)
    BY <1>2, <1>3, SizeAssumption DEF Store, Image, Fields
  <1> HIDE DEF a, v
  <1>5. CASE Settled(F)
    <2>1. a \notin F
      BY <1>4, <1>5 DEF Settled, a
    <2>2. Part(data, F)' = Part(data, F) /\ Part(flash, F)' = Part(flash, F)
      BY <1>4, <2>1 DEF Part
    <2>3. \A u \in Thread : \A w \in Left(u)' : w[1] \notin F
      BY <1>2, <1>5 DEF Settled
    <2> QED
      BY <1>5, <2>2, <2>3 DEF Settled
  <1>6. CASE Filling(F)
    <2>1. PICK u \in Thread, s \in Contents(F) :
            Busy(u) /\ ~each[u] /\ \A b \in F : Gets(u, b, s[b])
      BY <1>6 DEF Filling
    <2>2. u = t
      BY <1>1, <2>1, OthersDone
    <2>3. ASSUME NEW b \in F
          PROVE  Gets(t, b, s[b])'
      <3>1. /\ \A w \in Left(t) : w[1] = b => w[2] = s[b]
            /\ data[b] = s[b] \/ \E w \in Left(t) : w[1] = b
        BY <2>1, <2>2 DEF Gets
      <3>2. \A w \in Left(t)' : w[1] = b => w[2] = s[b]
        BY <1>2, <3>1
      <3>3. CASE b = a
        <4>1. v = s[b]
          BY <1>4, <3>1, <3>3 DEF a, v
        <4> QED
          BY <1>4, <3>2, <3>3, <4>1 DEF Gets
      <3>4. CASE b # a
        <4>1. data'[b] = data[b]
          BY <1>4, <3>4
        <4>2. (\E w \in Left(t) : w[1] = b) => \E w \in Left(t)' : w[1] = b
          BY <1>2, <3>4 DEF a
        <4> QED
          BY <3>1, <3>2, <4>1, <4>2 DEF Gets
      <3> QED
        BY <3>3, <3>4
    <2>4. CASE Busy(t)'
      <3>1. ~each'[t]
        BY <1>4, <2>1, <2>2
      <3> QED
        BY <2>3, <2>4, <3>1 DEF Filling
    <2>5. Busy(t)'
      BY <1>1 DEF Store, Busy, AfterStore, TypeOK
    <2> QED
      BY <2>4, <2>5
  <1> QED
    BY <1>1, <1>5, <1>6 DEF FieldInv

(* A step that stores nothing leaves a field as it is, unless it ends the  *)
(* call.                                                                   *)
LEMMA StepKeepsFields ==
    ASSUME FieldInv, NEW t \in Thread, ~raced', NEW F \in Fields,
           mpc[t] \in Committing \cup {"mark"},
           mpc' = [mpc EXCEPT ![t] = mpc'[t]],
           mpc'[t] = "idle" => mpc[t] # "mark",
           flash' \in {flash, data},
           UNCHANGED <<data, todo, each, raced>>
    PROVE  Settled(F)' \/ Filling(F)'
  <1>1. StoreInv /\ Ended /\ TypeOK /\ ~raced /\ (Settled(F) \/ Filling(F))
    BY DEF FieldInv, StoreInv, TypeInv
  <1>2. \A u \in Thread : Left(u)' = Left(u)
    BY DEF Left
  <1>3. Part(data, F)' = Part(data, F)
    BY DEF Part
  <1>4. Part(flash, F)' = Part(flash, F) \/ Part(flash, F)' = Part(data, F)
    BY DEF Part
  <1>5. CASE Settled(F)
    BY <1>2, <1>3, <1>4, <1>5 DEF Settled
  <1>6. CASE Filling(F)
    <2>1. PICK u \in Thread, s \in Contents(F) :
            Busy(u) /\ ~each[u] /\ \A b \in F : Gets(u, b, s[b])
      BY <1>6 DEF Filling
    <2>2. u = t
      BY <1>1, <2>1, OthersDone DEF Busy, Committing
    <2>3. CASE mpc'[t] # "idle"
      <3>1. \A b \in F : Gets(t, b, s[b])'
        BY <1>2, <2>1, <2>2 DEF Gets
      <3>2. Busy(t)' /\ ~each'[t]
        BY <2>1, <2>2, <2>3 DEF Busy
      <3> QED
        BY <3>1, <3>2 DEF Filling
    <2>4. CASE mpc'[t] = "idle"
      <3>1. mpc[t] \in Committing
        BY <2>4
      <3>2. todo[t] = <<>>
        BY <1>1, <2>1, <2>2, <3>1 DEF Ended
      <3>3. \A w \in Thread : Left(w)' = {}
        BY <1>1, <1>2, <2>1, <2>2, <3>2, OthersDone, NothingLeft DEF Left
      <3>4. Part(data, F) \in Contents(F) \cup {Part(flash, F)}
        BY <1>1, <3>1, FilledIsWhole
      <3> QED
        BY <1>3, <1>4, <3>3, <3>4 DEF Settled
    <2> QED
      BY <2>3, <2>4
  <1> QED
    BY <1>1, <1>5, <1>6

LEMMA NextFieldInv == FieldInv /\ [Next]_store => FieldInv'
  <1> SUFFICES ASSUME FieldInv, [Next]_store
               PROVE  FieldInv'
    OBVIOUS
  <1>0. StoreInv' /\ Ended' /\ StoreInv /\ TypeOK
    BY NextStoreInv, NextEnded DEF FieldInv, StoreInv, TypeInv
  <1> SUFFICES ASSUME ~raced', NEW F \in Fields
               PROVE  Settled(F)' \/ Filling(F)'
    BY <1>0 DEF FieldInv
  <1>1. ASSUME NEW t \in Thread, NEW c \in Call, Invoke(t, c)
        PROVE  Settled(F)' \/ Filling(F)'
    BY <1>1, InvokeKeepsFields
  <1>2. ASSUME NEW t \in Thread, Store(t)
        PROVE  Settled(F)' \/ Filling(F)'
    BY <1>2, StoreKeepsFields
  <1>3. ASSUME NEW t \in Thread,
               \/ Mark(t) \/ CommitTest(t) \/ SetBlob(t) \/ Publish(t)
               \/ PublishFails(t) \/ Clear(t)
        PROVE  Settled(F)' \/ Filling(F)'
    <2>1. mpc[t] \in Committing \cup {"mark"} /\ mpc' = [mpc EXCEPT ![t] = mpc'[t]]
      BY <1>0, <1>3 DEF Mark, CommitTest, SetBlob, Publish, PublishFails, Clear,
         Committing, TypeOK
    <2>2. mpc'[t] = "idle" => mpc[t] # "mark"
      BY <1>0, <1>3 DEF Mark, AfterStore, CommitTest, SetBlob, Publish, PublishFails,
         Clear, TypeOK
    <2>3. UNCHANGED <<data, todo, each, raced>>
      BY <1>3 DEF Mark, CommitTest, SetBlob, Publish, PublishFails, Clear, call, ghosts
    <2>4. mpc[t] = "publish" => snap = data
      BY <1>0, <2>3 DEF StoreInv, NoRace, Snapped, Busy
    <2>5. flash' \in {flash, data}
      BY <1>3, <2>4 DEF Mark, CommitTest, SetBlob, Publish, PublishFails, Clear
    <2> QED
      BY <2>1, <2>2, <2>3, <2>5, StepKeepsFields
  <1>4. ASSUME PowerCut
        PROVE  Settled(F)'
    <2>1. \A t \in Thread : Left(t)' = {}
      BY <1>4, NothingLeft DEF PowerCut, Left
    <2> QED
      BY <1>4, <2>1 DEF PowerCut, Settled, Part
  <1>5. CASE UNCHANGED store
    <2>1. UNCHANGED <<data, flash, mpc, todo, each, raced>>
      BY <1>5 DEF store, call, ghosts
    <2>2. /\ \A t \in Thread : Left(t)' = Left(t) /\ Busy(t)' = Busy(t)
          /\ Part(data, F)' = Part(data, F) /\ Part(flash, F)' = Part(flash, F)
      BY <2>1 DEF Left, Busy, Part
    <2>3. \A t \in Thread : \A a, v : Gets(t, a, v)' = Gets(t, a, v)
      BY <2>1, <2>2 DEF Gets
    <2>4. CASE Settled(F)
      BY <2>2, <2>4 DEF Settled
    <2>5. CASE Filling(F)
      BY <2>1, <2>2, <2>3, <2>5 DEF Filling
    <2> QED
      BY <2>1, <2>4, <2>5 DEF FieldInv
  <1> QED
    BY <1>1, <1>2, <1>3, <1>4, <1>5 DEF Next, Progress

(* Without overlapping calls the flash never shows a field that is part of *)
(* one call and part of another, for any calls and any field of theirs.    *)
(* (common.h MemoWriteString, EEPROM2.cpp commit)                          *)
THEOREM StringsWhole == Spec => StringsNeverTorn
  <1> DEFINE Torn ==
        ~raced => \A F \in Fields :
            Part(flash', F) # Part(flash, F) => Part(flash', F) \in Contents(F)
  <1>1. FieldInv /\ [Next]_store => [Torn]_store
    <2> SUFFICES ASSUME FieldInv, [Next]_store, ~raced, NEW F \in Fields,
                        Part(flash', F) # Part(flash, F)
                 PROVE  Part(flash', F) \in Contents(F)
      OBVIOUS
    <2>1. flash' # flash
      OBVIOUS
    <2>2. PICK t \in Thread : Publish(t)
      <3>1. \A t \in Thread, c \in Call : ~Invoke(t, c)
        BY <2>1 DEF Invoke
      <3>2. ~PowerCut /\ ~UNCHANGED store
        BY <2>1 DEF PowerCut, store
      <3>3. PICK t \in Thread : Progress(t)
        BY <3>1, <3>2 DEF Next
      <3> QED
        BY <2>1, <3>3 DEF Progress, Store, Mark, CommitTest, SetBlob, PublishFails, Clear
    <2>3. flash' = data /\ mpc[t] \in Committing
      BY <2>2 DEF Publish, Committing, FieldInv, StoreInv, NoRace, Snapped, Busy
    <2>4. Part(data, F) \in Contents(F) \cup {Part(flash, F)}
      BY <2>3, FilledIsWhole DEF FieldInv
    <2> QED
      BY <2>3, <2>4
  <1> QED
    BY <1>1, InitFieldInv, NextFieldInv, PTL DEF Spec, StringsNeverTorn
=============================================================================
