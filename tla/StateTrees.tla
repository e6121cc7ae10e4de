----------------------------- MODULE StateTrees -----------------------------
(***************************************************************************)
(* What the state migration promises about the trees it handles, whatever  *)
(* it does in between and whoever writes beside it: a tree moves whole     *)
(* from one of its two names to the other, and only to a name nothing has; *)
(* it is never merged with another, written over or deleted.               *)
(***************************************************************************)
EXTENDS TLAPS

CONSTANTS Tree, Op

VARIABLES
  located,  \* the trees with their names: <<tree, side, op>>
  aside,    \* trees the user moved out of the way
  born      \* trees that have existed

vars == <<located, aside, born>>

Side == {"legacy", "canonical"}
Other(side) == IF side = "legacy" THEN "canonical" ELSE "legacy"

TreesTypeOK ==
  /\ located \subseteq Tree \X Side \X Op
  /\ aside \subseteq born
  /\ born \subseteq Tree

Free(side, op) == \A id \in Tree : <<id, side, op>> \notin located

\* No name is that of two trees.
OneTreePerName ==
  \A id, id2 \in Tree, side \in Side, op \in Op :
    <<id, side, op>> \in located /\ <<id2, side, op>> \in located => id = id2

\* No tree has two names.
OneNamePerTree ==
  \A id \in Tree, side, side2 \in Side, op, op2 \in Op :
    <<id, side, op>> \in located /\ <<id, side2, op2>> \in located =>
      side = side2 /\ op = op2

\* A tree that existed is under a name or aside, and not both.
NamedOrAside ==
  /\ \A id \in Tree, side \in Side, op \in Op :
       <<id, side, op>> \in located => id \in born \ aside
  /\ \A id \in born \ aside : \E side \in Side, op \in Op :
       <<id, side, op>> \in located

EachTreeOnce == OneTreePerName /\ OneNamePerTree /\ NamedOrAside

Init ==
  /\ TreesTypeOK
  /\ EachTreeOnce
  /\ aside = {}

Rename(id, side, op) ==
  /\ <<id, side, op>> \in located
  /\ Free(Other(side), op)
  /\ located' = (located \ {<<id, side, op>>}) \cup {<<id, Other(side), op>>}
  /\ UNCHANGED <<aside, born>>

\* A program creates a tree that it does not find.
Create(id, side, op) ==
  /\ id \notin born
  /\ Free(side, op)
  /\ located' = located \cup {<<id, side, op>>}
  /\ born' = born \cup {id}
  /\ UNCHANGED aside

\* The user resolves a collision.
SetAside(id, side, op) ==
  /\ <<id, side, op>> \in located
  /\ ~Free(Other(side), op)
  /\ located' = located \ {<<id, side, op>>}
  /\ aside' = aside \cup {id}
  /\ UNCHANGED born

Next ==
  \E id \in Tree, side \in Side, op \in Op :
    \/ Rename(id, side, op)
    \/ Create(id, side, op)
    \/ SetAside(id, side, op)

Spec == Init /\ [][Next]_vars

-----------------------------------------------------------------------------
(***************************************************************************)
(* Whatever keeps this promise loses and duplicates nothing: each of the   *)
(* three steps of a migration keeps every tree in one place.               *)
(***************************************************************************)
THEOREM OnceForEver == Spec => []EachTreeOnce
<1>1. Init => TreesTypeOK /\ EachTreeOnce
  BY DEF Init
<1>2. TreesTypeOK /\ EachTreeOnce /\ [Next]_vars => TreesTypeOK' /\ EachTreeOnce'
  <2> SUFFICES ASSUME TreesTypeOK, OneTreePerName, OneNamePerTree, NamedOrAside,
                      [Next]_vars
               PROVE  TreesTypeOK' /\ EachTreeOnce'
    BY DEF EachTreeOnce
  <2> USE DEF Side, Other, TreesTypeOK
  <2>1. ASSUME NEW id \in Tree, NEW side \in Side, NEW op \in Op, Rename(id, side, op)
        PROVE  TreesTypeOK' /\ EachTreeOnce'
    <3>1. TreesTypeOK'
      BY <2>1 DEF Rename, NamedOrAside
    <3>2. OneTreePerName'
      BY <2>1 DEF Rename, Free, OneTreePerName
    <3>3. OneNamePerTree'
      <4>1. ASSUME NEW id2 \in Tree, NEW s \in Side, NEW o \in Op,
                   <<id2, s, o>> \in located'
            PROVE  \/ id2 # id /\ <<id2, s, o>> \in located
                   \/ id2 = id /\ s = Other(side) /\ o = op
        <5>1. \/ <<id2, s, o>> \in located /\ <<id2, s, o>> # <<id, side, op>>
              \/ <<id2, s, o>> = <<id, Other(side), op>>
          BY <2>1, <4>1 DEF Rename
        <5>2. id2 = id /\ <<id2, s, o>> \in located => s = side /\ o = op
          BY <2>1 DEF Rename, OneNamePerTree
        <5> QED BY <5>1, <5>2
      <4> QED BY <4>1 DEF OneNamePerTree
    <3>4. NamedOrAside'
      <4>1. ASSUME NEW id2 \in Tree, NEW side2 \in Side, NEW op2 \in Op,
                   <<id2, side2, op2>> \in located'
            PROVE  id2 \in born' \ aside'
        BY <2>1, <4>1 DEF Rename, NamedOrAside
      <4>2. ASSUME NEW id2 \in born' \ aside'
            PROVE  \E side2 \in Side, op2 \in Op : <<id2, side2, op2>> \in located'
        <5>1. CASE id2 = id
          <6>1. <<id2, Other(side), op>> \in located' /\ Other(side) \in Side
            BY <2>1, <5>1 DEF Rename
          <6> QED BY <6>1
        <5>2. CASE id2 # id
          BY <2>1, <4>2, <5>2 DEF Rename, NamedOrAside
        <5> QED BY <5>1, <5>2
      <4> QED BY <4>1, <4>2 DEF NamedOrAside
    <3> QED BY <3>1, <3>2, <3>3, <3>4 DEF EachTreeOnce
  <2>2. ASSUME NEW id \in Tree, NEW side \in Side, NEW op \in Op, Create(id, side, op)
        PROVE  TreesTypeOK' /\ EachTreeOnce'
    <3>1. TreesTypeOK'
      BY <2>2 DEF Create, NamedOrAside
    <3>2. OneTreePerName'
      BY <2>2 DEF Create, Free, OneTreePerName
    <3>3. OneNamePerTree'
      <4>1. ASSUME NEW id2 \in Tree, NEW s \in Side, NEW o \in Op,
                   <<id2, s, o>> \in located'
            PROVE  \/ id2 # id /\ <<id2, s, o>> \in located
                   \/ id2 = id /\ s = side /\ o = op
        <5>1. <<id2, s, o>> \in located \/ <<id2, s, o>> = <<id, side, op>>
          BY <2>2, <4>1 DEF Create
        <5>2. <<id2, s, o>> \in located => id2 # id
          BY <2>2 DEF Create, NamedOrAside
        <5> QED BY <5>1, <5>2
      <4> QED BY <4>1 DEF OneNamePerTree
    <3>4. NamedOrAside'
      <4>1. ASSUME NEW id2 \in Tree, NEW side2 \in Side, NEW op2 \in Op,
                   <<id2, side2, op2>> \in located'
            PROVE  id2 \in born' \ aside'
        BY <2>2, <4>1 DEF Create, NamedOrAside
      <4>2. ASSUME NEW id2 \in born' \ aside'
            PROVE  \E side2 \in Side, op2 \in Op : <<id2, side2, op2>> \in located'
        <5>1. <<id, side, op>> \in located'
          BY <2>2 DEF Create
        <5>2. CASE id2 # id
          <6>1. PICK side2 \in Side, op2 \in Op : <<id2, side2, op2>> \in located
            BY <2>2, <4>2, <5>2 DEF Create, NamedOrAside
          <6> QED BY <2>2, <6>1 DEF Create
        <5> QED BY <5>1, <5>2
      <4> QED BY <4>1, <4>2 DEF NamedOrAside
    <3> QED BY <3>1, <3>2, <3>3, <3>4 DEF EachTreeOnce
  <2>3. ASSUME NEW id \in Tree, NEW side \in Side, NEW op \in Op, SetAside(id, side, op)
        PROVE  TreesTypeOK' /\ EachTreeOnce'
    <3>1. TreesTypeOK'
      BY <2>3 DEF SetAside, NamedOrAside
    <3>2. OneTreePerName'
      BY <2>3 DEF SetAside, OneTreePerName
    <3>3. OneNamePerTree'
      BY <2>3 DEF SetAside, OneNamePerTree, NamedOrAside
    <3>4. NamedOrAside'
      <4>1. ASSUME NEW id2 \in Tree, NEW side2 \in Side, NEW op2 \in Op,
                   <<id2, side2, op2>> \in located'
            PROVE  id2 \in born' \ aside'
        <5>1. <<id2, side2, op2>> \in located /\ <<id2, side2, op2>> # <<id, side, op>>
          BY <2>3, <4>1 DEF SetAside
        <5>2. id2 # id
          BY <2>3, <5>1 DEF SetAside, OneNamePerTree
        <5> QED BY <2>3, <5>1, <5>2 DEF SetAside, NamedOrAside
      <4>2. ASSUME NEW id2 \in born' \ aside'
            PROVE  \E side2 \in Side, op2 \in Op : <<id2, side2, op2>> \in located'
        <5>1. PICK side2 \in Side, op2 \in Op : <<id2, side2, op2>> \in located
          BY <2>3, <4>2 DEF SetAside, NamedOrAside
        <5>2. <<id2, side2, op2>> \in located'
          BY <2>3, <4>2, <5>1 DEF SetAside
        <5> QED BY <5>2
      <4> QED BY <4>1, <4>2 DEF NamedOrAside
    <3> QED BY <3>1, <3>2, <3>3, <3>4 DEF EachTreeOnce
  <2>4. CASE UNCHANGED vars
    BY <2>4 DEF vars, EachTreeOnce, OneTreePerName, OneNamePerTree, NamedOrAside
  <2> QED BY <2>1, <2>2, <2>3, <2>4 DEF Next
<1> QED BY <1>1, <1>2, PTL DEF Spec
=============================================================================
