--------------------------- MODULE Characteristics ---------------------------
(***************************************************************************)
(* cpp_oop/task0: a table of characteristics, each a name and a value, and *)
(* a client that gets them by name, changes them and checks them.          *)
(***************************************************************************)
EXTENDS Integers, Sequences

CONSTANTS
  Names,     \* names
  Tables,    \* the lists of names that tables are made of
  Values,    \* the values that a client sets or types
  Deltas,    \* what it adds
  Rolls,     \* what a die shows
  Hardness,  \* how hard checks are
  BOUND      \* additions stop here: the code has no bound but an int's

ASSUME TablesAssumption == Tables \subseteq Seq(Names)
ASSUME NumbersAssumption ==
  /\ Values \subseteq Int /\ Deltas \subseteq Int /\ Hardness \subseteq Int
  /\ Rolls \subseteq 1 .. 20 /\ BOUND \in Nat /\ BOUND >= 20

VARIABLES
  names,        \* what the table was made of
  CharcVector,  \* the characteristics
  CharcNameSet, \* the names for the fast search
  reading,      \* the characteristic that operator >> reads, 0 for none
  typed,        \* how operator >> stands: "name", or "end" where there is no more
  added,        \* those that += changed
  check,        \* the check of the last step, and whether it was passed
  undefined     \* the client was given what is behind the last element

tableVars == <<names, CharcVector, CharcNameSet, reading, typed, added, check, undefined>>

checkType == {"NORMAL", "ADVANTAGE", "DISADVANTAGE"}

Valid(value) == value \in 1 .. 20

NoCheck == [mode |-> "none"]

-----------------------------------------------------------------------------
(* The table.                                                              *)

\* Mutant: the last of a name.
LastNamed(name) ==
  CHOOSE k \in DOMAIN CharcVector :
    /\ CharcVector[k].name = name
    /\ \A j \in k + 1 .. Len(CharcVector) : CharcVector[j].name # name

FirstNamed(name) ==
  CHOOSE k \in DOMAIN CharcVector :
    /\ CharcVector[k].name = name /\ \A j \in 1 .. k - 1 : CharcVector[j].name # name

HasName(name) == \E k \in DOMAIN CharcVector : CharcVector[k].name = name

Known(name) == name \in CharcNameSet

\* operator []: an index, or End, which the code dereferences.
End == Len(CharcVector) + 1

Found(name) == IF Known(name) /\ HasName(name) THEN FirstNamed(name) ELSE End

-----------------------------------------------------------------------------
(* The client; Idle is between calls.                                      *)

Idle == ~undefined /\ reading = 0

GetMissing(name) ==
  /\ Idle /\ Found(name) = End
  /\ undefined' = TRUE
  /\ check' = NoCheck
  /\ UNCHANGED <<names, CharcVector, CharcNameSet, reading, typed, added>>

\* The set is not told.
SetName(name, newName) ==
  /\ Idle /\ Found(name) # End
  /\ CharcVector' = [CharcVector EXCEPT ![Found(name)].name = newName]
  /\ check' = NoCheck
  /\ UNCHANGED <<names, CharcNameSet, reading, typed, added, undefined>>

\* Otherwise it throws before it changes the value.
Accepted(value) == Valid(value)

SetValue(name, newValue) ==
  /\ Idle /\ Found(name) # End /\ Accepted(newValue)
  /\ CharcVector' = [CharcVector EXCEPT ![Found(name)].value = newValue]
  /\ added' = added \ {Found(name)}
  /\ check' = NoCheck
  /\ UNCHANGED <<names, CharcNameSet, reading, typed, undefined>>

\* No test of what it comes to.
Add(name, delta) ==
  /\ Idle /\ Found(name) # End
  /\ LET k == Found(name)
     IN  /\ CharcVector[k].value + delta \in -BOUND .. BOUND
         /\ CharcVector' = [CharcVector EXCEPT ![k].value = @ + delta]
         /\ added' = added \cup {k}
  /\ check' = NoCheck
  /\ UNCHANGED <<names, CharcNameSet, reading, typed, undefined>>

-----------------------------------------------------------------------------
(* operator >>.                                                            *)

ReadBegins(name) ==
  /\ Idle /\ Found(name) # End
  /\ reading' = Found(name) /\ typed' = "name"
  /\ check' = NoCheck
  /\ UNCHANGED <<names, CharcVector, CharcNameSet, added, undefined>>

\* A name and a value: the name is set before the value throws, and both are asked
\* for again.
ReadPair(newName, newValue) ==
  /\ reading # 0 /\ typed = "name"
  /\ CharcVector' = [CharcVector EXCEPT ![reading] =
       [name |-> newName, value |-> IF Accepted(newValue) THEN newValue ELSE @.value]]
  /\ reading' = IF Accepted(newValue) THEN 0 ELSE reading
  /\ added' = IF Accepted(newValue) THEN added \ {reading} ELSE added
  /\ check' = NoCheck
  /\ UNCHANGED <<names, CharcNameSet, typed, undefined>>

\* The end of the input: it is cleared, and read, and cleared.
ReadAtEnd ==
  /\ reading # 0
  /\ typed' = "end"
  /\ check' = NoCheck
  /\ UNCHANGED <<names, CharcVector, CharcNameSet, reading, added, undefined>>

-----------------------------------------------------------------------------
(* Checks.                                                                 *)

abilityCheck(value, hardness, roll) ==
  CASE roll = 1  -> FALSE
    [] roll = 20 -> TRUE
    [] OTHER     -> value + roll > hardness

\* The second roll of a pair is made only if the first does not decide.
Passed(mode, value, hardness, first, second) ==
  CASE mode = "NORMAL"       -> abilityCheck(value, hardness, first)
    [] mode = "ADVANTAGE"    -> \/ abilityCheck(value, hardness, first)
                                \/ abilityCheck(value, hardness, second)
    [] mode = "DISADVANTAGE" -> /\ abilityCheck(value, hardness, first)
                                /\ abilityCheck(value, hardness, second)

Check(name, mode, hardness, first, second) ==
  /\ Idle /\ Found(name) # End
  /\ LET value == CharcVector[Found(name)].value
     IN  check' = [mode |-> mode, value |-> value, hardness |-> hardness,
                   rolls |-> {first, second}, first |-> first,
                   passed |-> Passed(mode, value, hardness, first, second)]
  /\ UNCHANGED <<names, CharcVector, CharcNameSet, reading, typed, added, undefined>>

NameSet(list) == {list[k] : k \in DOMAIN list}

TableInit ==
  /\ names \in Tables
  /\ CharcVector = [k \in DOMAIN names |-> [name |-> names[k], value |-> 1]]
  /\ CharcNameSet = NameSet(names)
  /\ reading = 0 /\ typed = "name" /\ added = {} /\ check = NoCheck /\ undefined = FALSE

TableNext ==
  \/ \E name \in Names :
       \/ GetMissing(name) \/ ReadBegins(name)
       \/ \E newName \in Names : SetName(name, newName)
       \/ \E newValue \in Values : SetValue(name, newValue)
       \/ \E delta \in Deltas : Add(name, delta)
       \/ \E mode \in checkType, hardness \in Hardness, first, second \in Rolls :
            Check(name, mode, hardness, first, second)
  \/ \E newName \in Names, newValue \in Values : ReadPair(newName, newValue)
  \/ ReadAtEnd

TableSpec == TableInit /\ [][TableNext]_tableVars

-----------------------------------------------------------------------------
(* Properties.                                                             *)

\* Every variable has its type; the table keeps its length, and the set its names.
TableTypeOK ==
  /\ DOMAIN CharcVector = DOMAIN names
  /\ \A k \in DOMAIN CharcVector : CharcVector[k].name \in Names
                                   /\ CharcVector[k].value \in -BOUND .. BOUND
  /\ CharcNameSet = {names[k] : k \in DOMAIN names}
  /\ reading \in 0 .. Len(CharcVector) /\ typed \in {"name", "end"}
  /\ added \subseteq DOMAIN CharcVector

\* A value is out of 1 .. 20 only where += was used since it was last set, whatever
\* was typed and refused (Characteristic.hpp:16-40, Characteristic.cpp:52-55, 86-92).
OutOfRangeOnlyByAdd ==
  \A k \in DOMAIN CharcVector : ~Valid(CharcVector[k].value) => k \in added

\* A characteristic that has the name it was made with is found by it, unless an
\* earlier one has taken the name (CharacteristicTable.cpp:32-50).
FoundIfKept ==
  \A k \in DOMAIN names :
    CharcVector[k].name = names[k] =>
      \/ Found(names[k]) = k
      \/ Found(names[k]) < k /\ CharcVector[Found(names[k])].name = names[k]

\* With an advantage the better of two rolls counts and with the opposite the worse,
\* though the second is not always made; a 1 fails and a 20 passes whatever the
\* value (Characteristic.cpp:30-49).
BetterOrWorseRoll ==
  check # NoCheck =>
    LET low   == CHOOSE r \in check.rolls : \A s \in check.rolls : r <= s
        high  == CHOOSE r \in check.rolls : \A s \in check.rolls : r >= s
        roll  == CASE check.mode = "NORMAL"       -> check.first
                   [] check.mode = "ADVANTAGE"    -> high
                   [] check.mode = "DISADVANTAGE" -> low
    IN  check.passed <=> roll = 20 \/ (roll # 1 /\ check.value + roll > check.hardness)

\* The three together, over every sequence of calls on a table.
TableRight == OutOfRangeOnlyByAdd /\ FoundIfKept /\ BetterOrWorseRoll
=============================================================================
