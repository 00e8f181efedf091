---------------------------- MODULE AvatarPromise ----------------------------
(***************************************************************************)
(* What the owner of an avatar may rely on: the answer to the upload,      *)
(* whether the avatar is shown, and whether its original is stored.  There *)
(* are no queues, workers, calls or faults here: AvatarRefinement shows    *)
(* that the system keeps the promise in spite of them.                     *)
(***************************************************************************)
EXTENDS TLAPS

CONSTANT Avatar

VARIABLE view   \* each avatar as its owner sees it

\* hidden: deleted by a request that has not been answered with success; it may
\* come back.  gone: deleted for good.
View == [answer : {"open", "acked", "failed"},
         shown  : {"none", "shown", "hidden", "gone"},
         stored : BOOLEAN]

Unknown == [answer |-> "open", shown |-> "none", stored |-> FALSE]

Init == view = [a \in Avatar |-> Unknown]

Becomes(a, answer, shown, stored) ==
    view' = [view EXCEPT ![a] = [answer |-> answer, shown |-> shown, stored |-> stored]]

\* The original is stored; the upload may already have failed for the client.
Store(a) ==
    /\ view[a].answer = "open" /\ view[a].shown = "none"
    /\ \E answer \in {"open", "failed"} : Becomes(a, answer, "none", TRUE)

\* An avatar is shown only once its original is stored.
Show(a) ==
    /\ view[a].answer = "open" /\ view[a].shown = "none" /\ view[a].stored
    /\ Becomes(a, "open", "shown", TRUE)

\* An upload is acknowledged once its avatar is stored and known.
Ack(a) ==
    /\ view[a].answer = "open" /\ view[a].shown # "none"
    /\ view[a].stored \/ view[a].shown = "gone"
    /\ Becomes(a, "acked", view[a].shown, view[a].stored)

\* An upload that fails is withdrawn as far as possible.
Fail(a) ==
    /\ view[a].answer = "open"
    /\ \E stored \in {view[a].stored, FALSE} : Becomes(a, "failed", view[a].shown, stored)

Withdraw(a) ==
    /\ view[a].answer = "open" /\ view[a].shown # "gone"
    /\ Becomes(a, "open", "none", view[a].stored)

Hide(a) ==
    /\ view[a].shown = "shown"
    /\ Becomes(a, view[a].answer, "hidden", view[a].stored)

Reappear(a) ==
    /\ view[a].shown = "hidden"
    /\ Becomes(a, view[a].answer, "shown", view[a].stored)

\* A delete is acknowledged for an avatar that is hidden (or withdrawn meanwhile).
Delete(a) ==
    /\ \/ view[a].shown = "hidden"
       \/ view[a].shown = "none" /\ view[a].answer # "acked"
    /\ Becomes(a, view[a].answer, "gone", view[a].stored)

\* Only what is gone for good is cleaned up.
CleanUp(a) ==
    /\ view[a].shown = "gone"
    /\ Becomes(a, view[a].answer, "gone", FALSE)

Step(a) ==
    \/ Store(a) \/ Show(a) \/ Ack(a) \/ Fail(a) \/ Withdraw(a)
    \/ Hide(a) \/ Reappear(a) \/ Delete(a) \/ CleanUp(a)

Next == \E a \in Avatar : Step(a)

Spec == Init /\ [][Next]_view

-------------------------------------------------------------------------------

TypeOK == view \in [Avatar -> View]

\* An acknowledged avatar is known and stored until it is gone for good.
Kept ==
    \A a \in Avatar : view[a].answer = "acked" =>
        /\ view[a].shown # "none"
        /\ view[a].shown = "gone" \/ view[a].stored

\* What the promise amounts to (AvatarService.Upload, deleteAvatarWithPublish).
THEOREM PromiseKept == Spec => [](TypeOK /\ Kept)
<1> DEFINE Inv == TypeOK /\ Kept
<1>1. Init => Inv
  BY DEF Init, TypeOK, Kept, View, Unknown
<1>2. Inv /\ [Next]_view => Inv'
  <2> SUFFICES ASSUME Inv, [Next]_view PROVE Inv'
    OBVIOUS
  <2>1. CASE UNCHANGED view
    BY <2>1 DEF TypeOK, Kept
  <2>2. ASSUME NEW a \in Avatar, Step(a)
        PROVE  Inv'
    <3> DEFINE Fits(answer, shown, stored) ==
              /\ Becomes(a, answer, shown, stored)
              /\ answer \in {"open", "acked", "failed"}
              /\ shown \in {"none", "shown", "hidden", "gone"}
              /\ stored \in BOOLEAN
              /\ answer = "acked" => shown # "none" /\ (shown = "gone" \/ stored)
    <3>1. view[a] \in View /\ (view[a].answer = "acked" =>
            view[a].shown # "none" /\ (view[a].shown = "gone" \/ view[a].stored))
      BY DEF TypeOK, Kept
    <3>2. ASSUME NEW answer, NEW shown, NEW stored, Fits(answer, shown, stored)
          PROVE  Inv'
      <4> DEFINE n == [answer |-> answer, shown |-> shown, stored |-> stored]
      <4>1. n \in View /\ (n.answer = "acked" =>
              n.shown # "none" /\ (n.shown = "gone" \/ n.stored))
        BY <3>2 DEF View
      <4>2. view' = [view EXCEPT ![a] = n]
        BY <3>2 DEF Becomes
      <4> HIDE DEF n
      <4>3. QED
        BY <4>1, <4>2 DEF TypeOK, Kept
    <3> HIDE DEF Inv
    <3>3. CASE Store(a)
      BY <3>1, <3>2, <3>3 DEF Store
    <3>4. CASE Show(a)
      BY <3>1, <3>2, <3>4 DEF Show
    <3>5. CASE Ack(a)
      BY <3>1, <3>2, <3>5 DEF Ack, View
    <3>6. CASE Fail(a)
      BY <3>1, <3>2, <3>6 DEF Fail, View
    <3>7. CASE Withdraw(a)
      BY <3>1, <3>2, <3>7 DEF Withdraw, View
    <3>8. CASE Hide(a)
      BY <3>1, <3>2, <3>8 DEF Hide, View
    <3>9. CASE Reappear(a)
      BY <3>1, <3>2, <3>9 DEF Reappear, View
    <3>10. CASE Delete(a)
      BY <3>1, <3>2, <3>10 DEF Delete, View
    <3>11. CASE CleanUp(a)
      BY <3>1, <3>2, <3>11 DEF CleanUp, View
    <3>12. QED
      BY <2>2, <3>3, <3>4, <3>5, <3>6, <3>7, <3>8, <3>9, <3>10, <3>11 DEF Step
  <2>3. QED
    BY <2>1, <2>2 DEF Next
<1>3. QED
  BY <1>1, <1>2, PTL DEF Spec

===============================================================================
