------------------------------- MODULE FlatFs -------------------------------
(***************************************************************************)
(* What a file system with one directory promises its callers: names that  *)
(* lead to files, files with contents, and references that keep a file     *)
(* alive when its last name goes.  No blocks, no caches, no mounting: what *)
(* is written stays until it is overwritten, truncated, or the file is     *)
(* neither named nor held any more.  An operation that fails does nothing, *)
(* except that a write may have written less than asked (nothing, and only *)
(* extended the file up to its offset), and a truncation may have blanked  *)
(* part of the file.                                                       *)
(***************************************************************************)
EXTENDS Integers, Sequences, FiniteSetsExt

CONSTANTS Name, Value, Ino, Root, NoFile

VARIABLES
  names,   \* the file each name leads to, or NoFile
  data,    \* the contents of each file
  held     \* how many references to each file its users have

flatvars == <<held, names, data>>

Named(ns, i) == \E n \in Name : ns[n] = i
Alive(i) == i = Root \/ held[i] > 0 \/ Named(names, i)

Init ==
  /\ names = [n \in Name |-> NoFile]
  /\ data = [i \in Ino |-> << >>]
  /\ held = [i \in Ino |-> 0]

(* Get or give back a reference. *)
Grab(i) == held' = [held EXCEPT ![i] = @ + 1] /\ Alive(i) /\ UNCHANGED <<names, data>>

Drop(i) ==
  /\ held[i] > 0 /\ held' = [held EXCEPT ![i] = @ - 1]
  /\ data' = IF held[i] = 1 /\ ~Named(names, i) THEN [data EXCEPT ![i] = << >>] ELSE data
  /\ UNCHANGED names

Create(n, i) ==
  /\ held[i] = 0 /\ held' = [held EXCEPT ![i] = 1]
  /\ names[n] = NoFile /\ ~Alive(i)
  /\ names' = [names EXCEPT ![n] = i]
  /\ UNCHANGED data

(* All the ways in which names change; a file that loses its last name and *)
(* that nobody holds loses its contents.                                   *)
Rebind(ns) ==
  /\ names' = ns
  /\ data' = [i \in Ino |-> IF held[i] = 0 /\ Named(names, i) /\ ~Named(ns, i)
                            THEN << >> ELSE data[i]]

Link(n, i) ==
  /\ UNCHANGED held /\ held[i] > 0 /\ i # Root
  /\ names[n] = NoFile /\ Rebind([names EXCEPT ![n] = i])
Remove(n) == UNCHANGED held /\ names[n] # NoFile /\ Rebind([names EXCEPT ![n] = NoFile])
Rename(n1, n2) ==
  /\ UNCHANGED held
  /\ names[n1] # NoFile /\ names[n2] = NoFile
  /\ Rebind([names EXCEPT ![n2] = names[n1], ![n1] = NoFile])

(* A write of v to off..(end - 1), which is what was asked for or less. *)
Write(i) ==
  /\ held[i] > 0
  /\ UNCHANGED <<held, names>>
  /\ \A j \in Ino \ {i} : data'[j] = data[j]
  /\ LET old == data[i]
         new == data'[i]
     IN \E v \in Value, off \in 0..Len(new) : \E end \in off..Len(new) :
          new = [k \in 1..Max({Len(old), end}) |->
                   IF k > off /\ k <= end THEN <<v>>
                   ELSE IF k <= Len(old) THEN old[k] ELSE << >>]

Truncate(i) ==
  /\ held[i] > 0
  /\ UNCHANGED <<held, names>>
  /\ \A j \in Ino \ {i} : data'[j] = data[j]
  /\ LET old == data[i]
         new == data'[i]
     IN \/ new = << >>
        \/ Len(new) = Len(old) /\ \A k \in DOMAIN old : new[k] \in {<< >>, old[k]}

(* An operation that fails, or that nobody can see from outside. *)
Nothing == UNCHANGED flatvars

Next ==
  \/ Nothing
  \/ \E i \in Ino : Grab(i) \/ Drop(i) \/ Truncate(i) \/ Write(i)
  \/ \E n \in Name, i \in Ino : Create(n, i) \/ Link(n, i)
  \/ \E n \in Name : Remove(n)
  \/ \E n1, n2 \in Name : Rename(n1, n2)

FlatSpec == Init /\ [][Next]_flatvars
=============================================================================
