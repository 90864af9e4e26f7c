------------------------------ MODULE LineSpec ------------------------------
(***************************************************************************)
(* What the monitor's command line promises its user: a line is edited as  *)
(* a stack of characters, and the command that runs gets the first MaxArgs *)
(* words of exactly that line.  Nothing of an earlier line, or of what was *)
(* rubbed out, is ever part of a command.                                  *)
(***************************************************************************)
EXTENDS Naturals, Sequences, FiniteSets

CONSTANTS
  Char,       \* the characters a line may hold
  Gap,        \* the one that separates words
  MaxLen,     \* characters in a line
  MaxArgs     \* words handed to a command

VARIABLES
  line,   \* the line being edited
  args    \* the words a handler runs with

vars == <<line, args>>

(* The words of a line are its longest stretches without a gap: where they *)
(* start, and the one that starts at k.                                    *)
Starts(l) == {k \in DOMAIN l : l[k] # Gap /\ (k = 1 \/ l[k - 1] = Gap)}

Word(l, k) ==
  LET e == CHOOSE e \in k .. Len(l) :
             /\ \A j \in k .. e : l[j] # Gap
             /\ e = Len(l) \/ l[e + 1] = Gap
  IN  SubSeq(l, k, e)

(* The first MaxArgs of them, in order. *)
Nth(l, n) == CHOOSE k \in Starts(l) : Cardinality({j \in Starts(l) : j <= k}) = n

FirstWords(l) ==
  LET count == Cardinality(Starts(l))
  IN  [n \in 1 .. (IF count < MaxArgs THEN count ELSE MaxArgs) |-> Word(l, Nth(l, n))]

Init == line = <<>> /\ args = <<>>

Type(c) == Len(line) < MaxLen /\ line' = Append(line, c) /\ UNCHANGED args

Erase ==
  /\ line # <<>>
  /\ line' = SubSeq(line, 1, Len(line) - 1)
  /\ UNCHANGED args

Cancel == line' = [k \in DOMAIN line |-> Gap] /\ UNCHANGED args

Enter == line' = <<>> /\ args' = FirstWords(line)

Return == args' = <<>> /\ UNCHANGED line

Restart == line' = <<>> /\ args' = <<>>

Next == (\E c \in Char : Type(c)) \/ Erase \/ Cancel \/ Enter \/ Return \/ Restart

Spec == Init /\ [][Next]_vars
=============================================================================
