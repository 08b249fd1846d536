---------------------------- MODULE ProcessProofs ----------------------------
(***************************************************************************)
(* What popen, pclose and system keep true of the children and of the ends *)
(* of the pipes, for any number of processes, descriptors and streams; then *)
(* what one stream keeps true of its flags.                                *)
(***************************************************************************)
EXTENDS Process, Stdio, Induction, FiniteSetTheorems, SequenceTheorems

Referents ==
    {Free, Tty} \cup {ReadEnd(c) : c \in Children} \cup {WriteEnd(c) : c \in Children}

Table == [Fds -> Referents]

Types ==
    /\ stage \in [Children -> {"none", "forked", "runs", "zombie", "gone"}]
    /\ kind \in [Children -> {"r", "w", "s"}]
    /\ orphans \subseteq Children /\ DOMAIN stream \subseteq Children
    /\ pc \in {"idle", "popen", "pclose", "system"} /\ current \in Children

\* Which children a call, the streams and the orphans are.
Counted ==
    /\ pc = "popen" => /\ stage[current] # "none" /\ kind[current] # "s"
                       /\ current \notin DOMAIN stream \cup orphans
    /\ pc = "system" => current \in Unreaped
    /\ \A c \in DOMAIN stream : stage[c] # "none" /\ kind[c] # "s"
    /\ \A c \in orphans : stage[c] # "none"

\* The child that a call is about is the only one without a stream.
Few ==
    Cardinality(Unreaped) <=
      Cardinality(DOMAIN stream) + Cardinality(orphans) + (IF pc = "idle" THEN 0 ELSE 1)

Inv == Types /\ Counted /\ Few

\* The program's standard input and output.
TtyFirst(t) == {0, 1} \subseteq Fds /\ t[0] = Tty /\ t[1] = Tty

\* Table t has each end of pipe c once, and not as a standard descriptor.
HasBoth(t, c) ==
    \E r, w \in Fds \ {0, 1} :
      /\ r # w
      /\ \A n \in Fds : (t[n] = ReadEnd(c) <=> n = r) /\ (t[n] = WriteEnd(c) <=> n = w)

HasNeither(t, c) == \A n \in Fds : t[n] # ReadEnd(c) /\ t[n] # WriteEnd(c)

\* Where the ends of the pipes are before a child has moved its own, and after.
Placed ==
    /\ fdt \in [Processes -> Table] /\ \A c \in DOMAIN stream : stream[c] \in Fds
    /\ TtyFirst(fdt[Parent])
    /\ \A c \in Children : stage[c] = "none" => \A q \in Processes : HasNeither(fdt[q], c)
    /\ \A c \in Children : stage[c] = "forked" /\ kind[c] # "s" => HasBoth(fdt[c], c)
    /\ pc = "popen" => HasBoth(fdt[Parent], current)
    /\ PipeInPlace

-----------------------------------------------------------------------------
(* Tables of descriptors                                                    *)

LEMMA EndsDiffer ==
  ASSUME NEW c, NEW d
  PROVE  /\ ReadEnd(c) # WriteEnd(d)
         /\ ReadEnd(c) = ReadEnd(d) <=> c = d
         /\ WriteEnd(c) = WriteEnd(d) <=> c = d
         /\ ReadEnd(c) # Free /\ WriteEnd(c) # Free
         /\ ReadEnd(c) # Tty /\ WriteEnd(c) # Tty
         /\ Free # Tty
<1>1. /\ ReadEnd(c)[1] = "read" /\ ReadEnd(c)[2] = c
      /\ ReadEnd(d)[1] = "read" /\ ReadEnd(d)[2] = d
      /\ WriteEnd(c)[1] = "write" /\ WriteEnd(c)[2] = c
      /\ WriteEnd(d)[1] = "write" /\ WriteEnd(d)[2] = d
      /\ Free[1] = "free" /\ Tty[1] = "tty"
  BY DEF ReadEnd, WriteEnd, Free, Tty
<1> QED
  BY <1>1 DEF ReadEnd, WriteEnd

\* The two ends of a pipe, one of them the child's and the other the program's.
LEMMA SidesDiffer ==
  ASSUME NEW c, NEW k \in {"r", "w"}
  PROVE  /\ \/ TheirEnd(c, k) = ReadEnd(c) /\ OurEnd(c, k) = WriteEnd(c)
            \/ TheirEnd(c, k) = WriteEnd(c) /\ OurEnd(c, k) = ReadEnd(c)
         /\ Standard(k) \in {0, 1}
BY DEF TheirEnd, OurEnd, Standard

\* A free descriptor, if there is one, is found.
LEMMA LowestFreeIs ==
  ASSUME NEW t, NEW a \in Fds, t[a] = Free
  PROVE  LowestFree(t) \in Fds /\ t[LowestFree(t)] = Free
<1> DEFINE F == {n \in Fds : t[n] = Free}
<1>1. F \subseteq Nat /\ F # {}
  BY ProcessAssumption DEF Fds
<1>2. \E n \in F : \A m \in F : n <= m
  <2> HIDE DEF F
  <2> QED
    BY <1>1, LeastOf
<1> QED
  BY <1>2 DEF LowestFree

LEMMA FdOfIs ==
  ASSUME NEW t, NEW e, NEW a \in Fds, t[a] = e
  PROVE  FdOf(t, e) \in Fds /\ t[FdOf(t, e)] = e
BY DEF FdOf

LEMMA TwoFree ==
  ASSUME NEW t, Cardinality({n \in Fds : t[n] = Free}) >= 2
  PROVE  \E a, b \in Fds : a # b /\ t[a] = Free /\ t[b] = Free
<1> DEFINE F == {n \in Fds : t[n] = Free}
<1>1. IsFiniteSet(F)
  <2>1. IsFiniteSet(Fds)
    BY ProcessAssumption, FS_Interval DEF Fds
  <2> QED
    BY <2>1, FS_Subset
<1>2. F # {}
  BY FS_EmptySet
<1>3. PICK a \in F : TRUE
  BY <1>2
<1>4. Cardinality(F \ {a}) >= 1 /\ IsFiniteSet(F \ {a})
  <2> HIDE DEF F
  <2>1. Cardinality(F) \in Nat /\ Cardinality(F \ {a}) = Cardinality(F) - 1 /\ IsFiniteSet(F \ {a})
    BY <1>1, <1>3, FS_RemoveElement, FS_CardinalityType
  <2>2. Cardinality(F) >= 2
    BY DEF F
  <2> QED
    BY <2>1, <2>2
<1>5. F \ {a} # {}
  <2> HIDE DEF F
  <2> QED
    BY <1>4, FS_EmptySet
<1> QED
  BY <1>3, <1>5

\* pipe() takes two free descriptors and leaves the others.
LEMMA PipedIs ==
  ASSUME NEW t \in Table, NEW c \in Children,
         Cardinality({n \in Fds : t[n] = Free}) >= 2
  PROVE  /\ Piped(t, c) \in Table
         /\ \E r, w \in Fds :
              /\ r # w /\ t[r] = Free /\ t[w] = Free
              /\ \A n \in Fds : Piped(t, c)[n] = IF n = w THEN WriteEnd(c)
                                                  ELSE IF n = r THEN ReadEnd(c) ELSE t[n]
<1> DEFINE r == LowestFree(t)
           one == [t EXCEPT ![r] = ReadEnd(c)]
           w == LowestFree(one)
<1>1. PICK a, b \in Fds : a # b /\ t[a] = Free /\ t[b] = Free
  BY TwoFree
<1>2. r \in Fds /\ t[r] = Free
  BY <1>1, LowestFreeIs
<1> HIDE DEF r
<1>3. one \in Table /\ \A n \in Fds : one[n] = IF n = r THEN ReadEnd(c) ELSE t[n]
  BY <1>2 DEF Table, Referents
<1>4. one[a] = Free \/ one[b] = Free
  BY <1>1, <1>3
<1> HIDE DEF one
<1>5. w \in Fds /\ one[w] = Free
  BY <1>1, <1>4, LowestFreeIs
<1> HIDE DEF w
<1>6. w # r /\ t[w] = Free
  BY <1>2, <1>3, <1>5, EndsDiffer
<1>7. Piped(t, c) = [one EXCEPT ![w] = WriteEnd(c)]
  BY DEF Piped, one, w, r
<1>8. Piped(t, c) \in Table
  BY <1>3, <1>5, <1>7 DEF Table, Referents
<1>9. \A n \in Fds : Piped(t, c)[n] = IF n = w THEN WriteEnd(c)
                                       ELSE IF n = r THEN ReadEnd(c) ELSE t[n]
  BY <1>3, <1>5, <1>7 DEF Table
<1> QED
  BY <1>2, <1>5, <1>6, <1>8, <1>9

\* What the new pipe means for the table.
LEMMA PipedHas ==
  ASSUME NEW t \in Table, NEW c \in Children,
         Cardinality({n \in Fds : t[n] = Free}) >= 2,
         TtyFirst(t), HasNeither(t, c)
  PROVE  /\ TtyFirst(Piped(t, c)) /\ HasBoth(Piped(t, c), c)
         /\ \A d \in Children : d # c /\ HasNeither(t, d) => HasNeither(Piped(t, c), d)
         /\ \A n \in Fds : t[n] # Free => Piped(t, c)[n] = t[n]
<1> DEFINE u == Piped(t, c)
<1>1. PICK r, w \in Fds :
        /\ r # w /\ t[r] = Free /\ t[w] = Free
        /\ \A n \in Fds : u[n] = IF n = w THEN WriteEnd(c)
                                 ELSE IF n = r THEN ReadEnd(c) ELSE t[n]
  BY PipedIs
<1> HIDE DEF u
<1>2. r \notin {0, 1} /\ w \notin {0, 1}
  BY <1>1, EndsDiffer DEF TtyFirst
<1>3. TtyFirst(u)
  BY <1>1, <1>2 DEF TtyFirst
<1>4. HasBoth(u, c)
  BY <1>1, <1>2, EndsDiffer DEF HasBoth, HasNeither
<1>5. \A d \in Children : d # c /\ HasNeither(t, d) => HasNeither(u, d)
  BY <1>1, EndsDiffer DEF HasNeither
<1>6. \A n \in Fds : t[n] # Free => u[n] = t[n]
  BY <1>1
<1> QED
  BY <1>3, <1>4, <1>5, <1>6 DEF u

\* What the program keeps of the pipe.
LEMMA ParentSideIs ==
  ASSUME NEW t \in Table, NEW c \in Children, NEW k \in {"r", "w"}, HasBoth(t, c), TtyFirst(t)
  PROVE  /\ ParentSide(t, c, k) \in Table /\ TtyFirst(ParentSide(t, c, k))
         /\ FdOf(t, OurEnd(c, k)) \in Fds
         /\ ParentSide(t, c, k)[FdOf(t, OurEnd(c, k))] = OurEnd(c, k)
         /\ \A n \in Fds : /\ ParentSide(t, c, k)[n] \in {t[n], Free}
                           /\ t[n] # TheirEnd(c, k) => ParentSide(t, c, k)[n] = t[n]
<1> DEFINE u == ParentSide(t, c, k)
           m == FdOf(t, TheirEnd(c, k))
           o == FdOf(t, OurEnd(c, k))
<1>1. \E a, b \in Fds : t[a] = TheirEnd(c, k) /\ t[b] = OurEnd(c, k)
  BY SidesDiffer DEF HasBoth
<1>2. m \in Fds /\ t[m] = TheirEnd(c, k) /\ o \in Fds /\ t[o] = OurEnd(c, k)
  BY <1>1, FdOfIs
<1>3. u = [t EXCEPT ![m] = Free]
  BY DEF ParentSide
<1> HIDE DEF m, o, u
<1>4. u \in Table /\ \A n \in Fds : u[n] = IF n = m THEN Free ELSE t[n]
  BY <1>2, <1>3 DEF Table, Referents
<1>5. \A n \in Fds : t[n] = TheirEnd(c, k) => n = m
  BY <1>2, SidesDiffer DEF HasBoth
<1>6. o # m /\ 0 # m /\ 1 # m
  BY <1>2, SidesDiffer, EndsDiffer DEF TtyFirst
<1>7. TtyFirst(u) /\ u[o] = OurEnd(c, k)
  BY <1>2, <1>4, <1>6 DEF TtyFirst
<1>8. \A n \in Fds : u[n] \in {t[n], Free} /\ (t[n] # TheirEnd(c, k) => u[n] = t[n])
  BY <1>2, <1>4
<1> QED
  BY <1>2, <1>4, <1>7, <1>8 DEF u, o

\* The child finds its end at the standard descriptor and nowhere else, and has no other.
LEMMA ChildSideIs ==
  ASSUME NEW t \in Table, NEW c \in Children, NEW k \in {"r", "w"}, HasBoth(t, c)
  PROVE  /\ ChildSide(t, c, k) \in Table
         /\ \A n \in Fds : /\ n = Standard(k) <=> ChildSide(t, c, k)[n] = TheirEnd(c, k)
                           /\ ChildSide(t, c, k)[n] # OurEnd(c, k)
         /\ \A n \in Fds : \/ ChildSide(t, c, k)[n] = Free
                           \/ \E m \in Fds : ChildSide(t, c, k)[n] = t[m]
<1> DEFINE u == ChildSide(t, c, k)
           m == FdOf(t, TheirEnd(c, k))
           o == FdOf(t, OurEnd(c, k))
           closed == [t EXCEPT ![o] = Free, ![Standard(k)] = Free]
<1>1. \E a, b \in Fds \ {0, 1} : t[a] = TheirEnd(c, k) /\ t[b] = OurEnd(c, k)
  BY SidesDiffer DEF HasBoth
<1>2. m \in Fds /\ t[m] = TheirEnd(c, k) /\ o \in Fds /\ t[o] = OurEnd(c, k)
  BY <1>1, FdOfIs
<1>3. \A n \in Fds : (t[n] = TheirEnd(c, k) => n = m) /\ (t[n] = OurEnd(c, k) => n = o)
  BY <1>2, SidesDiffer DEF HasBoth
<1>4. m \notin {0, 1} /\ o \notin {0, 1} /\ m # o
  BY <1>1, <1>2, <1>3, SidesDiffer, EndsDiffer
<1>5. Standard(k) \in {0, 1} /\ m # Standard(k) /\ o # Standard(k)
  BY <1>4, SidesDiffer
<1>6. Standard(k) \in Fds
  BY <1>1, <1>5, ProcessAssumption DEF Fds
<1>7. u = [closed EXCEPT ![Standard(k)] = t[m], ![m] = Free]
  BY <1>5 DEF ChildSide
<1> HIDE DEF m, o, u
<1>8. closed \in Table /\ \A n \in Fds : closed[n] = IF n \in {o, Standard(k)} THEN Free ELSE t[n]
  BY <1>2, <1>6 DEF Table, Referents
<1> HIDE DEF closed
<1>9. /\ u \in Table
      /\ \A n \in Fds : u[n] = IF n = m THEN Free
                               ELSE IF n = Standard(k) THEN t[m] ELSE closed[n]
  BY <1>2, <1>6, <1>7, <1>8 DEF Table, Referents
<1>10. \A n \in Fds : u[n] = IF n = Standard(k) THEN TheirEnd(c, k)
                             ELSE IF n \in {m, o} THEN Free ELSE t[n]
  BY <1>2, <1>5, <1>8, <1>9
<1>11. TheirEnd(c, k) # OurEnd(c, k) /\ Free # TheirEnd(c, k) /\ Free # OurEnd(c, k)
  BY SidesDiffer, EndsDiffer
<1>12. \A n \in Fds : /\ n = Standard(k) <=> u[n] = TheirEnd(c, k)
                      /\ u[n] # OurEnd(c, k)
  BY <1>3, <1>10, <1>11
<1>13. \A n \in Fds : u[n] = Free \/ \E l \in Fds : u[n] = t[l]
  BY <1>2, <1>10
<1> QED
  BY <1>9, <1>12, <1>13 DEF u
-----------------------------------------------------------------------------
(* The calls                                                                *)

LEMMA InitInv == Init => Inv
<1> SUFFICES ASSUME Init PROVE Inv
  OBVIOUS
<1>1. Types
  <2>1. DOMAIN stream = {}
    BY DEF Init
  <2> QED
    BY <2>1 DEF Init, Types
<1>2. Counted
  BY DEF Init, Counted
<1>3. Few
  <2>1. Unreaped = {} /\ DOMAIN stream = {} /\ orphans = {}
    BY DEF Init, Unreaped, Alive
  <2> QED
    BY <2>1, FS_EmptySet DEF Init, Few
<1> QED
  BY <1>1, <1>2, <1>3 DEF Inv

\* Numbers of children.
LEMMA Sizes ==
  ASSUME NEW S, S \subseteq Children
  PROVE  /\ IsFiniteSet(S) /\ Cardinality(S) \in Nat
         /\ \A c : c \notin S => Cardinality(S \cup {c}) = Cardinality(S) + 1
         /\ \A c : c \in S => Cardinality(S \ {c}) = Cardinality(S) - 1
BY ProcessAssumption, FS_Subset, FS_CardinalityType, FS_AddElement, FS_RemoveElement

\* A process that is started.
LEMMA Started ==
  ASSUME Types, NEW c \in Fresh, stage' = [stage EXCEPT ![c] = "forked"]
  PROVE  /\ c \in Children /\ c \notin Unreaped /\ Unreaped' = Unreaped \cup {c}
         /\ Cardinality(Unreaped') = Cardinality(Unreaped) + 1
<1>1. c \in Children /\ c \notin Unreaped /\ Unreaped' = Unreaped \cup {c}
  BY DEF Types, Fresh, Unreaped, Alive
<1>2. Unreaped \subseteq Children
  BY DEF Unreaped
<1> QED
  BY <1>1, <1>2, Sizes

LEMMA PopenKeepsInv ==
  ASSUME Inv, NEW c \in Fresh, NEW k \in Kinds, popen(c, k)
  PROVE  Inv'
<1>1. /\ c \in Children /\ c \notin Unreaped /\ Unreaped' = Unreaped \cup {c}
      /\ Cardinality(Unreaped') = Cardinality(Unreaped) + 1
  BY Started DEF popen, Inv
<1>2. k \in {"r", "w"} /\ stage[c] = "none"
  BY ProcessAssumption DEF Fresh
<1>4. Types'
  BY <1>1, <1>2 DEF popen, Inv, Types
<1>5. Counted'
  BY <1>1, <1>2 DEF popen, Inv, Types, Counted
<1>6. Few'
  <2>1. Unreaped \subseteq Children
    BY DEF Unreaped
  <2>2. Cardinality(Unreaped) \in Nat
    BY <2>1, Sizes
  <2>3. Cardinality(DOMAIN stream) \in Nat /\ Cardinality(orphans) \in Nat
    BY Sizes DEF Inv, Types
  <2>4. Cardinality(Unreaped) <= Cardinality(DOMAIN stream) + Cardinality(orphans)
    BY <2>3 DEF popen, Inv, Few
  <2>5. stream' = stream /\ orphans' = orphans /\ pc' = "popen"
    BY DEF popen
  <2> QED
    BY <1>1, <2>2, <2>3, <2>4, <2>5 DEF Few
<1> QED
  BY <1>4, <1>5, <1>6 DEF Inv

LEMMA PopenParentKeepsInv ==
  ASSUME Inv, popenParent
  PROVE  Inv'
<1> DEFINE S == DOMAIN stream
<1>1. /\ pc = "popen" /\ pc' = "idle"
      /\ UNCHANGED <<stage, kind, current>>
      /\ \/ DOMAIN stream' = S \cup {current} /\ orphans' = orphans
         \/ DOMAIN stream' = S /\ orphans' = orphans \cup {current}
  BY DEF popenParent, Fdopened
<1>2. /\ current \in Children /\ current \notin S \cup orphans
      /\ stage[current] # "none" /\ kind[current] # "s"
  BY <1>1 DEF Inv, Types, Counted
<1>3. Types'
  BY <1>1, <1>2 DEF Inv, Types
<1>4. Counted'
  BY <1>1, <1>2 DEF Inv, Counted
<1>5. Few'
  <2>1. /\ Cardinality(S) \in Nat /\ Cardinality(orphans) \in Nat
        /\ Cardinality(S \cup {current}) = Cardinality(S) + 1
        /\ Cardinality(orphans \cup {current}) = Cardinality(orphans) + 1
    BY <1>2, Sizes DEF Inv, Types
  <2>2. Cardinality(Unreaped) \in Nat
    <3>1. Unreaped \subseteq Children
      BY DEF Unreaped
    <3> QED
      BY <3>1, Sizes
  <2>3. Unreaped' = Unreaped
    BY <1>1 DEF Unreaped, Alive
  <2>4. Cardinality(Unreaped) <= Cardinality(S) + Cardinality(orphans) + 1
    BY <1>1 DEF Inv, Few
  <2>5. Cardinality(DOMAIN stream') + Cardinality(orphans') = Cardinality(S) + Cardinality(orphans) + 1
    BY <1>1, <2>1
  <2>6. Cardinality(DOMAIN stream') \in Nat /\ Cardinality(orphans') \in Nat
    BY <1>1, <2>1
  <2> HIDE DEF S
  <2> QED
    BY <1>1, <2>1, <2>2, <2>3, <2>4, <2>5, <2>6 DEF Few
<1> QED
  BY <1>3, <1>4, <1>5 DEF Inv

LEMMA SystemKeepsInv ==
  ASSUME Inv, NEW c \in Fresh, system(c)
  PROVE  Inv'
<1>1. /\ c \in Children /\ c \notin Unreaped /\ Unreaped' = Unreaped \cup {c}
      /\ Cardinality(Unreaped') = Cardinality(Unreaped) + 1
  BY Started DEF system, Inv
<1>2. stage[c] = "none" /\ pc = "idle" /\ pc' = "system" /\ current' = c
  BY DEF Fresh, system
<1>3. Types'
  BY <1>1, <1>2 DEF system, Inv, Types
<1>4. Counted'
  BY <1>1, <1>2 DEF system, Inv, Types, Counted
<1>5. Few'
  <2>1. Unreaped \subseteq Children
    BY DEF Unreaped
  <2>2. Cardinality(Unreaped) \in Nat
    BY <2>1, Sizes
  <2>3. Cardinality(DOMAIN stream) \in Nat /\ Cardinality(orphans) \in Nat
    BY Sizes DEF Inv, Types
  <2>4. Cardinality(Unreaped) <= Cardinality(DOMAIN stream) + Cardinality(orphans)
    BY <1>2, <2>3 DEF Inv, Few
  <2>5. stream' = stream /\ orphans' = orphans
    BY DEF system
  <2> QED
    BY <1>1, <1>2, <2>2, <2>3, <2>4, <2>5 DEF Few
<1> QED
  BY <1>3, <1>4, <1>5 DEF Inv

LEMMA PcloseKeepsInv ==
  ASSUME Inv, NEW c \in Children, pclose(c)
  PROVE  Inv'
<1> DEFINE S == DOMAIN stream
<1>1. /\ pc = "idle" /\ pc' = "pclose" /\ current' = c /\ c \in S
      /\ DOMAIN stream' = S \ {c}
      /\ UNCHANGED <<stage, kind, orphans>>
  BY DEF pclose
<1>2. Types'
  BY <1>1 DEF Inv, Types
<1>3. Counted'
  BY <1>1 DEF Inv, Counted
<1>4. Few'
  <2>1. /\ Cardinality(S) \in Nat /\ Cardinality(orphans) \in Nat
        /\ Cardinality(S \ {c}) = Cardinality(S) - 1
    BY <1>1, Sizes DEF Inv, Types
  <2>2. Unreaped' = Unreaped
    BY <1>1 DEF Unreaped, Alive
  <2>3. Cardinality(Unreaped) <= Cardinality(S) + Cardinality(orphans)
    BY <1>1, <2>1 DEF Inv, Few
  <2>4. Cardinality(DOMAIN stream') + Cardinality(orphans') + 1 = Cardinality(S) + Cardinality(orphans)
    BY <1>1, <2>1
  <2> HIDE DEF S
  <2> QED
    BY <1>1, <2>2, <2>3, <2>4 DEF Few
<1> QED
  BY <1>2, <1>3, <1>4 DEF Inv

\* A child that goes on, or ends, stays a child that has not been waited for.
LEMMA StageKeepsInv ==
  ASSUME Inv, NEW c \in Unreaped, NEW s \in {"runs", "zombie"},
         stage' = [stage EXCEPT ![c] = s],
         UNCHANGED <<kind, orphans, stream, pc, current>>
  PROVE  Inv'
<1>1. c \in Children
  BY DEF Unreaped
<1>2. Unreaped' = Unreaped
  BY <1>1 DEF Inv, Types, Unreaped, Alive
<1>3. Types'
  BY <1>1 DEF Inv, Types
<1>4. \A d \in Children : stage[d] # "none" => stage'[d] # "none"
  BY <1>1 DEF Inv, Types
<1>5. Counted'
  BY <1>2, <1>4 DEF Inv, Types, Counted
<1>6. Few'
  BY <1>2 DEF Inv, Few
<1> QED
  BY <1>3, <1>5, <1>6 DEF Inv

\* Steps that only move bytes.
LEMMA BytesKeepInv ==
  ASSUME Inv, UNCHANGED <<stage, kind, orphans, stream, pc, current>>
  PROVE  Inv'
BY DEF Inv, Types, Counted, Few, Unreaped, Alive

LEMMA ChildKeepsInv ==
  ASSUME Inv, NEW c \in Children, Child(c)
  PROVE  Inv'
<1>1. \/ UNCHANGED <<stage, kind, orphans, stream, pc, current>>
      \/ /\ c \in Unreaped
         /\ UNCHANGED <<kind, orphans, stream, pc, current>>
         /\ \E s \in {"runs", "zombie"} : stage' = [stage EXCEPT ![c] = s]
  <2>1. CASE childExec(c)
    BY <2>1 DEF childExec, Unreaped, Alive
  <2>2. CASE childReads(c)
    BY <2>2 DEF childReads, Ends, Unreaped, Alive
  <2>3. CASE childWrites(c)
    BY <2>3 DEF childWrites, Ends, Unreaped, Alive
  <2>4. CASE childEnds(c)
    BY <2>4 DEF childEnds, Ends, Unreaped, Alive
  <2> QED
    BY <2>1, <2>2, <2>3, <2>4 DEF Child
<1> QED
  BY <1>1, StageKeepsInv, BytesKeepInv

\* What wait() does: a child is taken, or there is none.
LEMMA WaitIs ==
  ASSUME Inv, wait
  PROVE  /\ pc \in {"pclose", "system"} /\ UNCHANGED <<kind, orphans, stream, current>>
         /\ \/ \E c \in Unreaped :
                 /\ stage' = [stage EXCEPT ![c] = "gone"]
                 /\ pc' \in {"idle", pc}
                 /\ pc = "system" => (pc' = "idle" <=> c = current)
                 /\ Unreaped' = Unreaped \ {c}
            \/ Unreaped = {} /\ pc = "pclose" /\ pc' = "idle" /\ stage' = stage
<1>1. CASE Unreaped = {} /\ pc' = "idle" /\ UNCHANGED stage
  BY <1>1 DEF wait, Inv, Counted
<1>2. ASSUME NEW c \in Children, stage[c] = "zombie", stage' = [stage EXCEPT ![c] = "gone"],
             pc' = IF WaitEnds(c) THEN "idle" ELSE pc
      PROVE  /\ c \in Unreaped /\ pc' \in {"idle", pc}
             /\ pc = "system" => (pc' = "idle" <=> c = current)
             /\ Unreaped' = Unreaped \ {c}
  BY <1>2 DEF Inv, Types, Unreaped, Alive, WaitEnds
<1> QED
  BY <1>1, <1>2 DEF wait

LEMMA WaitKeepsInv ==
  ASSUME Inv, wait
  PROVE  Inv'
<1>1. pc \in {"pclose", "system"} /\ UNCHANGED <<kind, orphans, stream, current>>
  BY WaitIs
<1>2. /\ Unreaped \subseteq Children /\ Cardinality(Unreaped) \in Nat
      /\ Cardinality(DOMAIN stream) \in Nat /\ Cardinality(orphans) \in Nat
  <2>1. Unreaped \subseteq Children
    BY DEF Unreaped
  <2> QED
    BY <2>1, Sizes DEF Inv, Types
<1>3. Cardinality(Unreaped) <= Cardinality(DOMAIN stream) + Cardinality(orphans) + 1
  BY <1>1 DEF Inv, Few
<1>4. CASE Unreaped = {} /\ pc = "pclose" /\ pc' = "idle" /\ stage' = stage
  <2>1. Unreaped' = Unreaped /\ Cardinality(Unreaped) = 0
    BY <1>4, FS_EmptySet DEF Unreaped, Alive
  <2>2. Few'
    BY <1>1, <1>2, <1>4, <2>1 DEF Few
  <2> QED
    BY <1>1, <1>4, <2>2 DEF Inv, Types, Counted
<1>5. ASSUME NEW c \in Unreaped,
             stage' = [stage EXCEPT ![c] = "gone"], pc' \in {"idle", pc},
             pc = "system" => (pc' = "idle" <=> c = current),
             Unreaped' = Unreaped \ {c}
      PROVE  Inv'
  <2>1. Cardinality(Unreaped') = Cardinality(Unreaped) - 1
    BY <1>2, <1>5, Sizes
  <2>2. Few'
    BY <1>1, <1>2, <1>3, <1>5, <2>1 DEF Few
  <2>3. Types'
    BY <1>1, <1>2, <1>5 DEF Inv, Types
  <2>4. Counted'
    <3>1. \A d \in Children : stage[d] # "none" => stage'[d] # "none"
      BY <1>2, <1>5 DEF Inv, Types
    <3>2. pc' = "system" => current' \in Unreaped'
      BY <1>1, <1>5 DEF Inv, Counted
    <3>3. pc' # "popen"
      BY <1>1, <1>5
    <3> QED
      BY <1>1, <3>1, <3>2, <3>3 DEF Inv, Types, Counted
  <2> QED
    BY <2>2, <2>3, <2>4 DEF Inv
<1> QED
  BY <1>4, <1>5, WaitIs

LEMMA StepInv == Inv /\ [Next]_vars => Inv'
<1> SUFFICES ASSUME Inv, [Next]_vars PROVE Inv'
  OBVIOUS
<1>1. ASSUME NEW c \in Children, use(c) PROVE Inv'
  BY <1>1, BytesKeepInv DEF use
<1>2. CASE UNCHANGED vars
  BY <1>2, BytesKeepInv DEF vars
<1> QED
  BY <1>1, <1>2, PopenKeepsInv, PopenParentKeepsInv, SystemKeepsInv, PcloseKeepsInv,
     WaitKeepsInv, ChildKeepsInv DEF Next

LEMMA Invariance == Spec => []Inv
BY InitInv, StepInv, PTL DEF Spec

\* Between calls the program has no more children than streams, apart from those that
\* popen abandoned: every pclose and every system takes as many children as it made.
THEOREM NoOrphansHolds == Spec => []NoOrphans
<1>1. Inv => NoOrphans
  <2> SUFFICES ASSUME Inv, pc = "idle"
               PROVE  Cardinality(Unreaped) <= Cardinality(DOMAIN stream) + Cardinality(orphans)
    BY DEF NoOrphans
  <2>1. Cardinality(DOMAIN stream) \in Nat /\ Cardinality(orphans) \in Nat
    BY Sizes DEF Inv, Types
  <2> QED
    BY <2>1 DEF Inv, Few
<1> QED
  BY <1>1, Invariance, PTL

\* system() goes on waiting until its own child is the one that wait() gave.
THEOREM SystemWaitsHolds == Spec => SystemWaitsForItsOwn
<1>1. Inv /\ [Next]_vars => [pc = "system" /\ pc' = "idle" => stage'[current] = "gone"]_vars
  <2> SUFFICES ASSUME Inv, Next, pc = "system", pc' = "idle" PROVE stage'[current] = "gone"
    OBVIOUS
  <2>1. wait
    BY DEF Next, popen, popenParent, system, use, pclose, Child, childExec, childReads,
       childWrites, childEnds, Ends
  <2>2. PICK c \in Unreaped : stage' = [stage EXCEPT ![c] = "gone"] /\ c = current
    BY <2>1, WaitIs
  <2> QED
    BY <2>2 DEF Inv, Types
<1> QED
  BY <1>1, Invariance, PTL DEF Spec, SystemWaitsForItsOwn

-----------------------------------------------------------------------------
(* Where the ends of the pipes are                                          *)

\* A command has its end where it looks for it.
InPlace(t, c, k) ==
    \A n \in Fds : (n = Standard(k) <=> t[n] = TheirEnd(c, k)) /\ t[n] # OurEnd(c, k)

LEMMA PlacedIs ==
  Placed <=>
    /\ fdt \in [Processes -> Table] /\ TtyFirst(fdt[Parent])
    /\ \A c \in DOMAIN stream : /\ stream[c] \in Fds
                                /\ fdt[Parent][stream[c]] = OurEnd(c, kind[c])
    /\ \A c \in Children : stage[c] = "none" => \A q \in Processes : HasNeither(fdt[q], c)
    /\ \A c \in Children : stage[c] = "forked" /\ kind[c] # "s" => HasBoth(fdt[c], c)
    /\ \A c \in Children : stage[c] = "runs" /\ kind[c] # "s" => InPlace(fdt[c], c, kind[c])
    /\ pc = "popen" => HasBoth(fdt[Parent], current)
BY DEF Placed, PipeInPlace, InPlace

\* The same after a step.
LEMMA PlacedAfter ==
  ASSUME fdt' \in [Processes -> Table], TtyFirst(fdt'[Parent]),
         \A c \in DOMAIN stream' : /\ stream'[c] \in Fds
                                   /\ fdt'[Parent][stream'[c]] = OurEnd(c, kind'[c]),
         \A c \in Children : stage'[c] = "none" => \A q \in Processes : HasNeither(fdt'[q], c),
         \A c \in Children : stage'[c] = "forked" /\ kind'[c] # "s" => HasBoth(fdt'[c], c),
         \A c \in Children : stage'[c] = "runs" /\ kind'[c] # "s" =>
                               InPlace(fdt'[c], c, kind'[c]),
         pc' = "popen" => HasBoth(fdt'[Parent], current')
  PROVE  Placed'
BY DEF Placed, PipeInPlace, InPlace, TtyFirst, HasNeither, HasBoth

LEMMA InitPlaced == {0, 1} \subseteq Initial /\ Init => Placed
<1> SUFFICES ASSUME {0, 1} \subseteq Initial, Init PROVE Placed
  OBVIOUS
<1>1. fdt \in [Processes -> Table]
  BY DEF Init, Table, Referents
<1>2. TtyFirst(fdt[Parent])
  BY ProcessAssumption DEF Init, TtyFirst, Processes, Fds
<1>3. \A c \in Children, q \in Processes : HasNeither(fdt[q], c)
  <2>1. \A q \in Processes, n \in Fds : fdt[q][n] \in {Free, Tty}
    BY DEF Init
  <2> QED
    BY <2>1, EndsDiffer DEF HasNeither
<1>4. DOMAIN stream = {}
  BY DEF Init
<1> QED
  BY <1>1, <1>2, <1>3, <1>4, PlacedIs DEF Init

LEMMA PopenKeepsPlaced ==
  ASSUME Inv, Placed, NEW c \in Fresh, NEW k \in Kinds, popen(c, k)
  PROVE  Placed'
<1> DEFINE t == fdt[Parent]
           u == Piped(t, c)
<1>1. c \in Children /\ stage[c] = "none" /\ k \in {"r", "w"} /\ c # Parent
  BY ProcessAssumption DEF Fresh
<1>2. t \in Table /\ TtyFirst(t) /\ \A d \in Children : stage[d] = "none" => HasNeither(t, d)
  BY PlacedIs DEF Processes
<1>3. /\ u \in Table /\ TtyFirst(u) /\ HasBoth(u, c)
      /\ \A d \in Children : d # c /\ HasNeither(t, d) => HasNeither(u, d)
      /\ \A n \in Fds : t[n] # Free => u[n] = t[n]
  BY <1>1, <1>2, PipedIs, PipedHas DEF popen
<1>4. fdt' = [fdt EXCEPT ![Parent] = u, ![c] = u]
  BY DEF popen
<1>5. /\ stage' = [stage EXCEPT ![c] = "forked"] /\ kind' = [kind EXCEPT ![c] = k]
      /\ pc' = "popen" /\ current' = c /\ stream' = stream
  BY DEF popen
<1> HIDE DEF u, t
<1>6. /\ fdt' \in [Processes -> Table] /\ fdt'[Parent] = u /\ fdt'[c] = u
      /\ \A q \in Processes : q # Parent /\ q # c => fdt'[q] = fdt[q]
  BY <1>1, <1>3, <1>4, PlacedIs DEF Processes
<1>7. /\ stage'[c] = "forked" /\ kind'[c] = k
      /\ \A d \in Children : d # c => stage'[d] = stage[d] /\ kind'[d] = kind[d]
  BY <1>1, <1>5 DEF Inv, Types
<1>8. ASSUME NEW d \in DOMAIN stream'
      PROVE  stream'[d] \in Fds /\ u[stream'[d]] = OurEnd(d, kind'[d])
  <2>1. d \in Children /\ d # c /\ kind[d] \in {"r", "w"}
    BY <1>1, <1>5 DEF Inv, Types, Counted
  <2>2. stream[d] \in Fds /\ t[stream[d]] = OurEnd(d, kind[d])
    BY <1>5, PlacedIs DEF t
  <2>3. t[stream[d]] # Free
    BY <2>1, <2>2, SidesDiffer, EndsDiffer
  <2> QED
    BY <1>3, <1>5, <1>7, <2>1, <2>2, <2>3
<1>9. ASSUME NEW d \in Children, stage'[d] = "none", NEW q \in Processes
      PROVE  HasNeither(fdt'[q], d)
  <2>1. d # c /\ stage[d] = "none"
    BY <1>7, <1>9
  <2>2. HasNeither(fdt[q], d) /\ HasNeither(u, d)
    BY <1>2, <1>3, <2>1, PlacedIs
  <2> QED
    BY <1>6, <2>2
<1>10. \A d \in Children : stage'[d] = "forked" /\ kind'[d] # "s" => HasBoth(fdt'[d], d)
  BY <1>3, <1>6, <1>7, PlacedIs, ProcessAssumption DEF Processes
<1>11. \A d \in Children : stage'[d] = "runs" /\ kind'[d] # "s" => InPlace(fdt'[d], d, kind'[d])
  BY <1>6, <1>7, PlacedIs, ProcessAssumption DEF Processes
<1>12. HasBoth(fdt'[Parent], current') /\ TtyFirst(fdt'[Parent])
  BY <1>3, <1>5, <1>6
<1> QED
  BY <1>6, <1>8, <1>9, <1>10, <1>11, <1>12, PlacedAfter

\* A step that changes only the program's table, and keeps what its streams, and a popen that
\* goes on, need there.
LEMMA ParentKeepsPlaced ==
  ASSUME Inv, Placed, NEW u \in Table, TtyFirst(u), fdt' = [fdt EXCEPT ![Parent] = u],
         UNCHANGED <<stage, kind>>, pc' # "popen",
         \A n \in Fds : u[n] \in {fdt[Parent][n], Free},
         \A c \in DOMAIN stream' : stream'[c] \in Fds /\ u[stream'[c]] = OurEnd(c, kind[c])
  PROVE  Placed'
<1>1. /\ fdt' \in [Processes -> Table] /\ fdt'[Parent] = u
      /\ \A c \in Children : fdt'[c] = fdt[c]
  BY PlacedIs, ProcessAssumption DEF Processes
<1>2. ASSUME NEW c \in Children, stage[c] = "none", NEW q \in Processes
      PROVE  HasNeither(fdt'[q], c)
  <2>1. HasNeither(fdt[q], c) /\ HasNeither(fdt[Parent], c)
    BY <1>2, PlacedIs DEF Processes
  <2>2. HasNeither(u, c)
    BY <2>1, EndsDiffer DEF HasNeither
  <2> QED
    BY <1>1, <2>1, <2>2 DEF Processes
<1>3. \A c \in Children : stage[c] = "forked" /\ kind[c] # "s" => HasBoth(fdt'[c], c)
  BY <1>1, PlacedIs
<1>4. \A c \in Children : stage[c] = "runs" /\ kind[c] # "s" => InPlace(fdt'[c], c, kind[c])
  BY <1>1, PlacedIs
<1> QED
  BY <1>1, <1>2, <1>3, <1>4, PlacedAfter

LEMMA PopenParentKeepsPlaced ==
  ASSUME Inv, Placed, popenParent
  PROVE  Placed'
<1> DEFINE t == fdt[Parent]
           k == kind[current]
           ours == FdOf(t, OurEnd(current, k))
           u == ParentSide(t, current, k)
<1>1. /\ pc = "popen" /\ pc' = "idle" /\ fdt' = [fdt EXCEPT ![Parent] = u]
      /\ UNCHANGED <<stage, kind>>
      /\ \E fd \in {ours, NULL} : stream' = Fdopened(stream, current, fd)
  BY DEF popenParent
<1>2. current \in Children /\ k \in {"r", "w"} /\ current \notin DOMAIN stream
  BY <1>1 DEF Inv, Types, Counted
<1>3. t \in Table /\ TtyFirst(t) /\ HasBoth(t, current)
  BY <1>1, PlacedIs DEF Processes
<1> HIDE DEF t, k
<1>4. /\ u \in Table /\ TtyFirst(u)
      /\ ours \in Fds /\ u[ours] = OurEnd(current, k)
      /\ \A n \in Fds : /\ u[n] \in {t[n], Free}
                        /\ t[n] # TheirEnd(current, k) => u[n] = t[n]
  BY <1>2, <1>3, ParentSideIs
<1> HIDE DEF u, ours
<1>5. ASSUME NEW d \in DOMAIN stream
      PROVE  stream[d] \in Fds /\ u[stream[d]] = OurEnd(d, kind[d])
  <2>1. d \in Children /\ d # current /\ kind[d] \in {"r", "w"}
    BY <1>2 DEF Inv, Types, Counted
  <2>2. stream[d] \in Fds /\ t[stream[d]] = OurEnd(d, kind[d])
    BY PlacedIs DEF t
  <2>3. OurEnd(d, kind[d]) # TheirEnd(current, k)
    BY <1>2, <2>1, SidesDiffer, EndsDiffer
  <2> QED
    BY <1>4, <2>2, <2>3
<1>6. \A d \in DOMAIN stream' : stream'[d] \in Fds /\ u[stream'[d]] = OurEnd(d, kind[d])
  <2>1. CASE stream' = stream
    BY <1>5, <2>1
  <2>2. CASE /\ DOMAIN stream' = DOMAIN stream \cup {current}
             /\ stream'[current] = ours
             /\ \A d \in DOMAIN stream : stream'[d] = stream[d]
    BY <1>4, <1>5, <2>2 DEF k
  <2> QED
    BY <1>1, <1>2, <2>1, <2>2 DEF Fdopened
<1> QED
  BY <1>1, <1>4, <1>6, ParentKeepsPlaced DEF t

LEMMA PcloseKeepsPlaced ==
  ASSUME Inv, Placed, NEW c \in Children, pclose(c)
  PROVE  Placed'
<1> DEFINE t == fdt[Parent]
           u == [t EXCEPT ![stream[c]] = Free]
<1>1. /\ c \in DOMAIN stream /\ pc' = "pclose" /\ UNCHANGED <<stage, kind>>
      /\ stream' = [d \in DOMAIN stream \ {c} |-> stream[d]]
  BY DEF pclose
<1>2. fdt' = [fdt EXCEPT ![Parent] = u]
  BY PlacedIs DEF pclose, Processes
<1>3. /\ t \in Table /\ TtyFirst(t)
      /\ \A d \in DOMAIN stream : stream[d] \in Fds /\ t[stream[d]] = OurEnd(d, kind[d])
  BY PlacedIs DEF Processes
<1>4. \A d \in DOMAIN stream : d \in Children /\ kind[d] \in {"r", "w"}
  BY DEF Inv, Types, Counted
<1> HIDE DEF t
<1>5. u \in Table /\ \A n \in Fds : u[n] = IF n = stream[c] THEN Free ELSE t[n]
  BY <1>1, <1>3 DEF Table, Referents
<1> HIDE DEF u
<1>6. stream[c] \notin {0, 1}
  BY <1>1, <1>3, <1>4, SidesDiffer, EndsDiffer DEF TtyFirst
<1>7. TtyFirst(u)
  BY <1>3, <1>5, <1>6 DEF TtyFirst
<1>8. ASSUME NEW d \in DOMAIN stream, d # c
      PROVE  stream[d] \in Fds /\ u[stream[d]] = OurEnd(d, kind[d])
  <2>1. OurEnd(d, kind[d]) # OurEnd(c, kind[c])
    BY <1>1, <1>4, <1>8, SidesDiffer, EndsDiffer
  <2> QED
    BY <1>1, <1>3, <1>5, <2>1
<1>9. \A n \in Fds : u[n] \in {t[n], Free}
  BY <1>5
<1>10. \A d \in DOMAIN stream' : stream'[d] \in Fds /\ u[stream'[d]] = OurEnd(d, kind[d])
  BY <1>1, <1>8
<1> QED
  BY <1>1, <1>2, <1>5, <1>7, <1>9, <1>10, ParentKeepsPlaced DEF t

LEMMA SystemKeepsPlaced ==
  ASSUME Inv, Placed, NEW c \in Fresh, system(c)
  PROVE  Placed'
<1>1. c \in Children /\ c # Parent /\ stage[c] = "none"
  BY ProcessAssumption DEF Fresh
<1>2. /\ stage' = [stage EXCEPT ![c] = "forked"] /\ kind' = [kind EXCEPT ![c] = "s"]
      /\ pc' = "system" /\ stream' = stream
      /\ fdt' = [fdt EXCEPT ![c] = fdt[Parent]]
  BY DEF system
<1>3. /\ fdt' \in [Processes -> Table] /\ fdt'[Parent] = fdt[Parent] /\ fdt'[c] = fdt[Parent]
      /\ \A q \in Processes : q # c => fdt'[q] = fdt[q]
  BY <1>1, <1>2, PlacedIs DEF Processes
<1>4. /\ stage'[c] = "forked" /\ kind'[c] = "s"
      /\ \A d \in Children : d # c => stage'[d] = stage[d] /\ kind'[d] = kind[d]
  BY <1>1, <1>2 DEF Inv, Types
<1>5. \A d \in DOMAIN stream : d \in Children /\ d # c
  BY <1>1 DEF Inv, Types, Counted
<1>6. \A d \in DOMAIN stream' : /\ stream'[d] \in Fds
                                /\ fdt'[Parent][stream'[d]] = OurEnd(d, kind'[d])
  BY <1>2, <1>3, <1>4, <1>5, PlacedIs
<1>7. \A d \in Children : stage'[d] = "none" => \A q \in Processes : HasNeither(fdt'[q], d)
  BY <1>3, <1>4, PlacedIs DEF Processes
<1>8. \A d \in Children : stage'[d] = "forked" /\ kind'[d] # "s" => HasBoth(fdt'[d], d)
  BY <1>3, <1>4, PlacedIs DEF Processes
<1>9. \A d \in Children : stage'[d] = "runs" /\ kind'[d] # "s" => InPlace(fdt'[d], d, kind'[d])
  BY <1>3, <1>4, PlacedIs DEF Processes
<1>10. TtyFirst(fdt'[Parent])
  BY <1>3, PlacedIs
<1> QED
  BY <1>2, <1>3, <1>6, <1>7, <1>8, <1>9, <1>10, PlacedAfter

\* A step of one child: it has no end that it did not have.
LEMMA OneChildKeepsPlaced ==
  ASSUME Inv, Placed, NEW c \in Children, stage[c] # "none",
         NEW u \in Table, fdt' = [fdt EXCEPT ![c] = u],
         \A n \in Fds : u[n] = Free \/ \E m \in Fds : u[n] = fdt[c][m],
         NEW s \in {"runs", "zombie"}, stage' = [stage EXCEPT ![c] = s],
         s = "runs" /\ kind[c] # "s" => InPlace(u, c, kind[c]),
         UNCHANGED <<kind, stream, pc, current>>
  PROVE  Placed'
<1>1. /\ fdt' \in [Processes -> Table] /\ fdt'[Parent] = fdt[Parent] /\ fdt'[c] = u
      /\ \A q \in Processes : q # c => fdt'[q] = fdt[q]
  BY PlacedIs, ProcessAssumption DEF Processes
<1>2. stage'[c] = s /\ \A d \in Children : d # c => stage'[d] = stage[d]
  BY DEF Inv, Types
<1>3. ASSUME NEW d \in Children, stage'[d] = "none", NEW q \in Processes
      PROVE  HasNeither(fdt'[q], d)
  <2>1. d # c /\ stage[d] = "none"
    BY <1>2, <1>3
  <2>2. HasNeither(fdt[q], d) /\ HasNeither(fdt[c], d)
    BY <2>1, PlacedIs DEF Processes
  <2>3. HasNeither(u, d)
    BY <2>2, EndsDiffer DEF HasNeither
  <2> QED
    BY <1>1, <2>2, <2>3
<1>4. \A d \in Children : stage'[d] = "forked" /\ kind'[d] # "s" => HasBoth(fdt'[d], d)
  BY <1>1, <1>2, PlacedIs DEF Processes
<1>5. \A d \in Children : stage'[d] = "runs" /\ kind'[d] # "s" => InPlace(fdt'[d], d, kind'[d])
  BY <1>1, <1>2, PlacedIs DEF Processes
<1>6. \A d \in DOMAIN stream' : /\ stream'[d] \in Fds
                                /\ fdt'[Parent][stream'[d]] = OurEnd(d, kind'[d])
  BY <1>1, PlacedIs
<1>7. TtyFirst(fdt'[Parent]) /\ (pc' = "popen" => HasBoth(fdt'[Parent], current'))
  BY <1>1, PlacedIs
<1> QED
  BY <1>1, <1>3, <1>4, <1>5, <1>6, <1>7, PlacedAfter

LEMMA ExecKeepsPlaced ==
  ASSUME Inv, Placed, NEW c \in Children, childExec(c)
  PROVE  Placed'
<1>1. /\ stage[c] = "forked" /\ stage' = [stage EXCEPT ![c] = "runs"]
      /\ UNCHANGED <<kind, stream, pc, current>>
  BY DEF childExec
<1>2. fdt \in [Processes -> Table] /\ fdt[c] \in Table
  BY PlacedIs DEF Processes
<1>3. CASE kind[c] = "s"
  <2>1. fdt' = [fdt EXCEPT ![c] = fdt[c]]
    BY <1>2, <1>3 DEF childExec
  <2> QED
    BY <1>1, <1>2, <1>3, <2>1, OneChildKeepsPlaced
<1>4. CASE kind[c] # "s"
  <2> DEFINE u == ChildSide(fdt[c], c, kind[c])
  <2>1. kind[c] \in {"r", "w"} /\ HasBoth(fdt[c], c)
    BY <1>1, <1>4, PlacedIs DEF Inv, Types
  <2>2. /\ u \in Table /\ InPlace(u, c, kind[c])
        /\ \A n \in Fds : u[n] = Free \/ \E m \in Fds : u[n] = fdt[c][m]
    BY <1>2, <2>1, ChildSideIs DEF InPlace
  <2>3. fdt' = [fdt EXCEPT ![c] = u]
    BY <1>4 DEF childExec
  <2> HIDE DEF u
  <2> QED
    BY <1>1, <2>2, <2>3, OneChildKeepsPlaced
<1> QED
  BY <1>3, <1>4

LEMMA EndsKeepsPlaced ==
  ASSUME Inv, Placed, NEW c \in Children, stage[c] = "runs", Ends(c)
  PROVE  Placed'
<1> DEFINE u == [n \in Fds |-> Free]
<1>1. u \in Table /\ \A n \in Fds : u[n] = Free
  BY DEF Table, Referents
<1>2. fdt' = [fdt EXCEPT ![c] = u]
  BY DEF Ends
<1> HIDE DEF u
<1> QED
  BY <1>1, <1>2, OneChildKeepsPlaced DEF Ends

LEMMA SamePlaced ==
  ASSUME Placed, UNCHANGED <<fdt, stage, kind, stream>>, pc' = pc \/ pc' # "popen",
         current' = current
  PROVE  Placed'
BY DEF Placed, PipeInPlace, TtyFirst, HasBoth, HasNeither

LEMMA WaitKeepsPlaced ==
  ASSUME Inv, Placed, wait
  PROVE  Placed'
<1>1. UNCHANGED <<fdt, kind, stream, current>> /\ pc' # "popen"
  BY DEF wait
<1>2. CASE stage' = stage
  BY <1>1, <1>2, SamePlaced
<1>3. ASSUME NEW c \in Children, stage[c] = "zombie", stage' = [stage EXCEPT ![c] = "gone"]
      PROVE  Placed'
  <2>1. stage'[c] = "gone" /\ \A d \in Children : d # c => stage'[d] = stage[d]
    BY <1>3 DEF Inv, Types
  <2> QED
    BY <1>1, <2>1, PlacedIs, PlacedAfter
<1> QED
  BY <1>2, <1>3 DEF wait

LEMMA StepPlaced == Inv /\ Placed /\ [Next]_vars => Placed'
<1> SUFFICES ASSUME Inv, Placed, [Next]_vars PROVE Placed'
  OBVIOUS
<1>1. ASSUME NEW c \in Children, use(c) PROVE Placed'
  BY <1>1, SamePlaced DEF use
<1>2. ASSUME NEW c \in Children, Child(c) PROVE Placed'
  <2>1. CASE childReads(c)
    BY <2>1, SamePlaced, EndsKeepsPlaced DEF childReads
  <2>2. CASE childWrites(c)
    BY <2>2, SamePlaced, EndsKeepsPlaced DEF childWrites
  <2>3. CASE childEnds(c)
    BY <2>3, EndsKeepsPlaced DEF childEnds
  <2> QED
    BY <1>2, <2>1, <2>2, <2>3, ExecKeepsPlaced DEF Child
<1>3. CASE UNCHANGED vars
  BY <1>3, SamePlaced DEF vars
<1> QED
  BY <1>1, <1>2, <1>3, PopenKeepsPlaced, PopenParentKeepsPlaced, SystemKeepsPlaced,
     PcloseKeepsPlaced, WaitKeepsPlaced DEF Next

\* In a program that has its standard input and output open, every command finds its end of
\* the pipe where it looks and holds no other, whatever else is open or running, and every
\* stream has the other end (popen.c, the child's close and dup2).
THEOREM PipeInPlaceHolds ==
  ASSUME {0, 1} \subseteq Initial
  PROVE  Spec => []PipeInPlace
<1>1. Init => Inv /\ Placed
  BY InitInv, InitPlaced
<1>2. Inv /\ Placed /\ [Next]_vars => (Inv /\ Placed)'
  BY StepInv, StepPlaced
<1>3. Placed => PipeInPlace
  BY DEF Placed
<1> QED
  BY <1>1, <1>2, <1>3, PTL DEF Spec

-----------------------------------------------------------------------------
(***************************************************************************)
(* One FILE, whatever the program does with it.  The flags say the truth   *)
(* for every size of buffer, every file and every count, for the programs  *)
(* that the theorems name.                                                 *)
(***************************************************************************)

\* The bytes that are ever about.
Octets ==
    PutBytes \cup UngetBytes \cup {Junk}
      \cup UNION {UNION {{d[i] : i \in DOMAIN d} : d \in u.files} : u \in Programs}

FileRecord ==
    [buf : Seq(Octets), bufpos : Nat, bufread : Nat, buffering : Bufferings,
     reading : BOOLEAN, writing : BOOLEAN, eof : BOOLEAN, err : BOOLEAN, ungot : BOOLEAN]

\* What was read lies in the buffer.
GoodFile(f) == f \in FileRecord /\ Len(f.buf) \in 1 .. Word - 1 /\ f.bufread <= Len(f.buf)

\* The descriptor's offset is in the file.
GoodDisk(d) == d \in [data : Seq(Octets), at : Nat] /\ d.at <= Len(d.data)

Outcome == [fp : {f \in FileRecord : GoodFile(f)}, disk : {d \in [data : Seq(Octets), at : Nat] : GoodDisk(d)}, lost : BOOLEAN]

\* No bytes of the file are left for a stream with the flag, nor bytes in its buffer.
AtEnd(f, d) == d.at = Len(d.data) /\ f.bufread <= f.bufpos

\* The programs whose end-of-file flag is to be trusted: fread leaves bytes that
\* fgetc read in the buffer, and fseek goes back among them.
Separate == ~ program.fails /\ ~ {"fgetc", "fread", "fseek"} \subseteq program.calls

\* A FILE, the file and the record of what was lost, in harmony.
InTune(f, d, l) ==
    /\ GoodFile(f) /\ GoodDisk(d)
    /\ f.reading => "fgetc" \in program.calls
    /\ l => program.fails /\ ("rewind" \notin program.calls => f.err)
    /\ f.writing => ~ f.eof
    /\ Separate /\ f.eof /\ ~ f.ungot =>
         /\ AtEnd(f, d)
         /\ f.reading /\ "fseek" \in program.calls => f.bufread = 0

StreamInv == program \in Programs /\ lost \in BOOLEAN /\ InTune(fp, disk, lost)

\* The functions that only pass on what they are given.
LEMMA WriteIs ==
  ASSUME NEW d, GoodDisk(d), NEW s \in Seq(Octets)
  PROVE  GoodDisk(WriteAt(d, s))
<1> DEFINE a == SubSeq(d.data, 1, d.at)
           b == SubSeq(d.data, d.at + Len(s) + 1, Len(d.data))
<1>1. d.data \in Seq(Octets) /\ d.at \in Nat /\ d.at <= Len(d.data) /\ Len(d.data) \in Nat /\ Len(s) \in Nat
  BY DEF GoodDisk
<1>2. a \in Seq(Octets) /\ Len(a) = d.at
  BY <1>1
<1>3. b \in Seq(Octets) /\ Len(b) \in Nat
  <2>1. \A i \in d.at + Len(s) + 1 .. Len(d.data) : d.data[i] \in Octets
    BY <1>1
  <2>2. d.at + Len(s) + 1 \in Int /\ Len(d.data) \in Int
    BY <1>1
  <2>3. b \in Seq(Octets)
    BY <2>1, <2>2, SubSeqProperties
  <2> QED
    BY <2>3
<1> HIDE DEF a, b
<1>4. a \o s \o b \in Seq(Octets) /\ Len(a \o s \o b) = d.at + Len(s) + Len(b)
  <2>1. a \o s \in Seq(Octets) /\ Len(a \o s) = d.at + Len(s)
    BY <1>2
  <2> QED
    BY <1>3, <2>1
<1>5. WriteAt(d, s) = [data |-> a \o s \o b, at |-> d.at + Len(s)]
  BY DEF WriteAt, Size, a, b
<1> QED
  BY <1>1, <1>3, <1>4, <1>5 DEF GoodDisk

LEMMA PendingIs ==
  ASSUME NEW f, GoodFile(f), NEW k \in 0 .. f.bufpos
  PROVE  SubSeq(Pending(f), 1, k) \in Seq(Octets)
<1>1. f.buf \in Seq(Octets) /\ f.bufpos \in Nat
  BY DEF GoodFile, FileRecord
<1>2. Pending(f) \in Seq(Octets) /\ Len(Pending(f)) = f.bufpos
  BY <1>1 DEF Pending, Octets
<1> QED
  BY <1>1, <1>2

LEMMA StoreIs ==
  ASSUME NEW f, GoodFile(f), NEW k \in Int, NEW s \in Seq(Octets)
  PROVE  Store(f, k, s) \in Seq(Octets) /\ Len(Store(f, k, s)) = Len(f.buf)
<1>1. f.buf \in Seq(Octets) /\ Len(f.buf) \in Nat /\ Len(s) \in Nat
  BY DEF GoodFile, FileRecord
<1>2. ASSUME NEW i \in 1 .. Len(f.buf) PROVE Store(f, k, s)[i] \in Octets
  <2>1. CASE i \in k + 1 .. k + Len(s)
    <3>1. i - k \in 1 .. Len(s)
      BY <1>1, <2>1
    <3> QED
      BY <2>1, <3>1 DEF Store
  <2>2. CASE i \notin k + 1 .. k + Len(s)
    BY <1>1, <2>2 DEF Store
  <2> QED
    BY <2>1, <2>2
<1>3. Store(f, k, s) \in [1 .. Len(f.buf) -> Octets]
  BY <1>2 DEF Store
<1> QED
  BY <1>1, <1>3

LEMMA ClearedIs ==
  ASSUME NEW f, GoodFile(f)
  PROVE  /\ GoodFile(Cleared(f))
         /\ Cleared(f).err = f.err /\ Cleared(f).buf = f.buf
         /\ Cleared(f).buffering = f.buffering
         /\ ~ Cleared(f).eof /\ ~ Cleared(f).writing /\ ~ Cleared(f).reading
         /\ ~ Cleared(f).ungot /\ Cleared(f).bufpos = 0 /\ Cleared(f).bufread = 0
<1> DEFINE g == Cleared(f)
<1>1. f \in FileRecord /\ Len(f.buf) \in 1 .. Word - 1
  BY DEF GoodFile
<1>2. g = [buf |-> f.buf, bufpos |-> 0, bufread |-> 0, buffering |-> f.buffering,
           reading |-> FALSE, writing |-> FALSE, eof |-> FALSE, err |-> f.err, ungot |-> FALSE]
  <2>1. f = [buf |-> f.buf, bufpos |-> f.bufpos, bufread |-> f.bufread, buffering |-> f.buffering,
             reading |-> f.reading, writing |-> f.writing, eof |-> f.eof, err |-> f.err, ungot |-> f.ungot]
    BY <1>1 DEF FileRecord
  <2>2. Cleared(f) = [f EXCEPT !.reading = FALSE, !.writing = FALSE, !.eof = FALSE,
                               !.ungot = FALSE, !.bufpos = 0, !.bufread = 0]
    BY Zenon DEF Cleared
  <2> QED
    BY <2>1, <2>2
<1> HIDE DEF g
<1>3. f.buf \in Seq(Octets) /\ f.buffering \in Bufferings /\ f.err \in BOOLEAN
  BY <1>1 DEF FileRecord
<1>4. g \in FileRecord
  BY <1>2, <1>3 DEF FileRecord
<1>5. /\ g.err = f.err /\ g.buf = f.buf /\ g.buffering = f.buffering
      /\ g.eof = FALSE /\ g.writing = FALSE /\ g.reading = FALSE
      /\ g.ungot = FALSE /\ g.bufpos = 0 /\ g.bufread = 0
  BY <1>2
<1>6. GoodFile(g)
  BY <1>1, <1>3, <1>4, <1>5 DEF GoodFile
<1> QED
  BY <1>5, <1>6 DEF g

\* What fflush does to the flags.
AfterFlush(f, d, o) ==
    /\ o \in Outcome
    /\ f.err => o.fp.err
    /\ o.lost => o.fp.err /\ program.fails
    /\ ~ o.fp.eof /\ ~ o.fp.writing /\ ~ o.fp.reading /\ o.fp.bufpos = 0 /\ o.fp.bufread = 0

LEMMA FlushIs ==
  ASSUME NEW f, GoodFile(f), NEW d, GoodDisk(d), program.fails \in BOOLEAN,
         NEW o \in Flush(f, d)
  PROVE  AfterFlush(f, d, o)
<1>1. CASE f.writing
  <2>1. PICK k \in Accepted(f.bufpos) :
          o = [fp |-> Cleared([f EXCEPT !.err = ErrAfter(f, k)]),
               disk |-> WriteAt(d, SubSeq(Pending(f), 1, k)),
               lost |-> k < f.bufpos]
    BY <1>1 DEF Flush
  <2>2. f.bufpos \in Nat /\ k \in 0 .. f.bufpos /\ (~ program.fails => k = f.bufpos)
    BY <2>1 DEF Accepted, GoodFile, FileRecord
  <2> DEFINE g == [f EXCEPT !.err = ErrAfter(f, k)]
  <2>3. GoodFile(g) /\ (g.err <=> f.err \/ k < f.bufpos)
    BY <2>2 DEF GoodFile, FileRecord, ErrAfter
  <2> HIDE DEF g
  <2>4. GoodDisk(WriteAt(d, SubSeq(Pending(f), 1, k)))
    BY <2>2, PendingIs, WriteIs
  <2>5. GoodFile(Cleared(g)) /\ Cleared(g) \in FileRecord
        /\ WriteAt(d, SubSeq(Pending(f), 1, k)) \in [data : Seq(Octets), at : Nat]
    BY <2>3, <2>4, ClearedIs DEF GoodFile, GoodDisk
  <2>6. o = [fp |-> Cleared(g), disk |-> WriteAt(d, SubSeq(Pending(f), 1, k)), lost |-> k < f.bufpos]
    BY <2>1 DEF g
  <2>7. o \in Outcome
    BY <2>4, <2>5, <2>6 DEF Outcome
  <2>8. /\ Cleared(g).err = g.err /\ ~ Cleared(g).eof /\ ~ Cleared(g).writing
        /\ ~ Cleared(g).reading /\ Cleared(g).bufpos = 0 /\ Cleared(g).bufread = 0
    BY <2>3, ClearedIs
  <2>9. o.fp = Cleared(g) /\ (o.lost <=> k < f.bufpos)
    BY <2>6
  <2> QED
    BY <2>2, <2>3, <2>7, <2>8, <2>9 DEF AfterFlush
<1>2. CASE ~ f.writing
  <2> DEFINE e == IF f.reading /\ Unread(f) > 0 /\ Unread(f) <= d.at
                  THEN [d EXCEPT !.at = @ - Unread(f)] ELSE d
  <2>1. o = [fp |-> Cleared(f), disk |-> e, lost |-> FALSE]
    BY <1>2 DEF Flush
  <2>2. GoodDisk(e) /\ e \in [data : Seq(Octets), at : Nat]
    <3>1. Unread(f) \in Int /\ d.at \in Nat /\ Len(d.data) \in Nat
      BY DEF Unread, GoodFile, FileRecord, GoodDisk
    <3> QED
      BY <3>1 DEF GoodDisk
  <2> HIDE DEF e
  <2>3. GoodFile(Cleared(f)) /\ Cleared(f) \in FileRecord
    BY ClearedIs DEF GoodFile
  <2>4. o \in Outcome
    BY <2>1, <2>2, <2>3 DEF Outcome
  <2> QED
    BY <2>1, <2>4, ClearedIs DEF AfterFlush
<1> QED
  BY <1>1, <1>2

\* A call that flushes first, if it does, starts in harmony.
LEMMA StartIs ==
  ASSUME NEW f, NEW d, NEW l \in BOOLEAN, InTune(f, d, l), program.fails \in BOOLEAN,
         NEW c \in BOOLEAN, NEW o \in FlushIf(c, f, d)
  PROVE  /\ \A k \in BOOLEAN : (k <=> l \/ o.lost) => InTune(o.fp, o.disk, k)
         /\ o.lost \in BOOLEAN
         /\ (f.err => o.fp.err) /\ (~ f.eof => ~ o.fp.eof)
         /\ (c => AfterFlush(f, d, o))
         /\ (~ c => o = [fp |-> f, disk |-> d, lost |-> FALSE])
<1>1. CASE c
  <2>1. AfterFlush(f, d, o)
    BY <1>1, FlushIs DEF FlushIf, InTune
  <2>2. GoodFile(o.fp) /\ GoodDisk(o.disk) /\ o.lost \in BOOLEAN
    BY <2>1 DEF AfterFlush, Outcome
  <2>3. ASSUME NEW k \in BOOLEAN, k <=> l \/ o.lost PROVE InTune(o.fp, o.disk, k)
    BY <2>1, <2>2, <2>3 DEF AfterFlush, InTune
  <2> QED
    BY <1>1, <2>1, <2>2, <2>3 DEF AfterFlush
<1>2. CASE ~ c
  <2>1. o = [fp |-> f, disk |-> d, lost |-> FALSE]
    BY <1>2 DEF FlushIf
  <2>2. o.fp = f /\ o.disk = d /\ o.lost = FALSE
    BY <2>1
  <2>3. ASSUME NEW k \in BOOLEAN, k <=> l \/ o.lost PROVE InTune(o.fp, o.disk, k)
    BY <2>2, <2>3
  <2> QED
    BY <1>2, <2>1, <2>2, <2>3
<1> QED
  BY <1>1, <1>2

\* What read() may return and where it leaves the offset.
LEMMA ReadIs ==
  ASSUME NEW d, GoodDisk(d), NEW n \in Int, NEW m \in Readable(d, n),
         program.fails \in BOOLEAN
  PROVE  /\ m \in Int /\ GoodDisk(Advanced(d, m))
         /\ m < 0 => program.fails
         /\ m = 0 => Advanced(d, m) = d /\ d.at = Len(d.data)
         /\ m > 0 => m <= n /\ Here(d, m) \in Seq(Octets) /\ Len(Here(d, m)) = m
<1>1. d \in [data : Seq(Octets), at : Nat] /\ d.data \in Seq(Octets) /\ d.at \in Nat
      /\ d.at <= Len(d.data) /\ Len(d.data) \in Nat
  BY DEF GoodDisk
<1>2. /\ m \in Int
      /\ m < 0 => program.fails
      /\ m = 0 => d.at = Len(d.data)
      /\ m > 0 => m <= n /\ d.at + m <= Len(d.data)
  BY <1>1 DEF Readable, Avail, Size
<1>3. GoodDisk(Advanced(d, m))
  BY <1>1, <1>2 DEF GoodDisk, Advanced
<1>4. m = 0 => Advanced(d, m) = d
  BY <1>1 DEF Advanced
<1>5. ASSUME m > 0 PROVE Here(d, m) \in Seq(Octets) /\ Len(Here(d, m)) = m
  <2>1. \A i \in d.at + 1 .. d.at + m : d.data[i] \in Octets
    BY <1>1, <1>2, <1>5
  <2> QED
    BY <1>1, <1>2, <1>5, <2>1, SubSeqProperties DEF Here
<1> QED
  BY <1>2, <1>3, <1>4, <1>5

-----------------------------------------------------------------------------
(* The calls, each of which keeps the harmony                               *)

LEMMA FgetcIs ==
  ASSUME StreamInv, program.fails \in BOOLEAN, Uses("fgetc"), fgetc
  PROVE  lost' \in BOOLEAN /\ InTune(fp', disk', lost')
<1>1. PICK o \in FlushIf(fp.writing, fp, disk) :
        LET f == o.fp
            c == <<"get", 1>>
        IN  \/ ~ CanRead(f) /\ End(o, c)
            \/ /\ CanRead(f) /\ f.bufpos < f.bufread
               /\ Done([f EXCEPT !.bufpos = @ + 1], o.disk, c, FromBuf(f, 1), o.lost)
            \/ /\ CanRead(f) /\ f.bufpos >= f.bufread
               /\ \E m \in Readable(o.disk, Len(f.buf)) :
                    IF m <= 0
                    THEN Done(AfterRead([f EXCEPT !.bufpos = 0, !.bufread = 0], m),
                              o.disk, c, <<>>, o.lost)
                    ELSE Done([f EXCEPT !.buf = Store(f, 0, Here(o.disk, m)),
                                        !.bufpos = 1, !.bufread = m,
                                        !.reading = TRUE, !.ungot = FALSE],
                              Advanced(o.disk, m), c, Here(o.disk, 1), o.lost)
  BY DEF fgetc
<1> DEFINE f == o.fp
<1>2. /\ fp.writing \in BOOLEAN /\ lost \in BOOLEAN /\ InTune(fp, disk, lost)
  BY DEF StreamInv, InTune, GoodFile, FileRecord
<1>3. /\ \A k \in BOOLEAN : (k <=> lost \/ o.lost) => InTune(f, o.disk, k)
      /\ o.lost \in BOOLEAN
  BY <1>2, StartIs
<1>4. lost' = (lost \/ o.lost)
  BY <1>1 DEF End, Done
<1>5. lost' \in BOOLEAN /\ InTune(f, o.disk, lost')
  BY <1>2, <1>3, <1>4
<1>9. ~ f.writing
  BY <1>2, StartIs DEF AfterFlush
<1>11. \A m \in Readable(o.disk, Len(f.buf)) : m \in Int
  BY <1>2, <1>5, ReadIs DEF InTune, GoodFile, FileRecord
<1> HIDE DEF f
<1>6. CASE End(o, <<"get", 1>>)
  BY <1>5, <1>6 DEF End, Done, f
<1>7. CASE CanRead(f) /\ fp' = [f EXCEPT !.bufpos = @ + 1] /\ disk' = o.disk
  BY <1>5, <1>7 DEF CanRead, InTune, GoodFile, FileRecord
<1>8. ASSUME NEW m \in Readable(o.disk, Len(f.buf)), m <= 0, CanRead(f),
             fp' = AfterRead([f EXCEPT !.bufpos = 0, !.bufread = 0], m), disk' = o.disk
      PROVE  InTune(fp', disk', lost')
  <2>1. f \in FileRecord /\ GoodDisk(o.disk) /\ Len(f.buf) \in Int /\ ~ f.eof
    BY <1>5, <1>8 DEF InTune, GoodFile, FileRecord, CanRead
  <2>2. m \in Int /\ (m < 0 => program.fails) /\ (m = 0 => o.disk.at = Len(o.disk.data))
    BY <2>1, <1>8, ReadIs
  <2>3. /\ fp' \in FileRecord /\ fp'.bufpos = 0 /\ fp'.bufread = 0 /\ fp'.buf = f.buf
        /\ fp'.reading = f.reading /\ fp'.writing = f.writing /\ fp'.ungot = f.ungot
        /\ (f.err => fp'.err) /\ (fp'.eof => m = 0)
    BY <1>8, <2>1, <2>2 DEF AfterRead, FileRecord
  <2> QED
    BY <1>5, <1>9, <1>8, <2>1, <2>2, <2>3 DEF InTune, GoodFile, AtEnd, Separate
<1>10. ASSUME NEW m \in Readable(o.disk, Len(f.buf)), m > 0, CanRead(f),
             fp' = [f EXCEPT !.buf = Store(f, 0, Here(o.disk, m)), !.bufpos = 1, !.bufread = m,
                             !.reading = TRUE, !.ungot = FALSE],
             disk' = Advanced(o.disk, m)
      PROVE  InTune(fp', disk', lost')
  <2>1. GoodFile(f) /\ GoodDisk(o.disk) /\ Len(f.buf) \in Int /\ ~ f.eof
    BY <1>5, <1>10 DEF InTune, GoodFile, FileRecord, CanRead
  <2>2. m \in Int /\ m <= Len(f.buf) /\ GoodDisk(disk') /\ Here(o.disk, m) \in Seq(Octets)
    BY <2>1, <1>10, ReadIs
  <2> DEFINE s == Store(f, 0, Here(o.disk, m))
  <2>3. s \in Seq(Octets) /\ Len(s) = Len(f.buf)
    BY <2>1, <2>2, StoreIs
  <2> HIDE DEF s
  <2>4. fp' = [f EXCEPT !.buf = s, !.bufpos = 1, !.bufread = m, !.reading = TRUE, !.ungot = FALSE]
    BY <1>10 DEF s
  <2>5. /\ GoodFile(fp') /\ fp'.eof = f.eof /\ fp'.err = f.err
    <3>1. f \in FileRecord
      BY <2>1 DEF GoodFile
    <3>2. /\ fp' \in FileRecord /\ fp'.buf = s /\ fp'.bufread = m
          /\ fp'.eof = f.eof /\ fp'.err = f.err
      <4>1. f = [buf |-> f.buf, bufpos |-> f.bufpos, bufread |-> f.bufread, buffering |-> f.buffering,
                 reading |-> f.reading, writing |-> f.writing, eof |-> f.eof, err |-> f.err, ungot |-> f.ungot]
        BY <3>1 DEF FileRecord
      <4>2. fp' = [buf |-> s, bufpos |-> 1, bufread |-> m, buffering |-> f.buffering,
                 reading |-> TRUE, writing |-> f.writing, eof |-> f.eof, err |-> f.err, ungot |-> FALSE]
        BY <2>4, <4>1
      <4>3. m \in Nat
        BY <1>10, <2>2
      <4> QED
        BY <3>1, <2>3, <4>2, <4>3 DEF FileRecord
    <3> QED
      BY <2>1, <2>2, <2>3, <3>2 DEF GoodFile
  <2> QED
    BY <1>5, <1>9, <2>1, <2>2, <2>5 DEF InTune, Uses
<1> QED
  <2>1. CASE ~ CanRead(f) /\ End(o, <<"get", 1>>)
    BY <1>5, <1>6, <2>1
  <2>2. CASE CanRead(f) /\ Done([f EXCEPT !.bufpos = @ + 1], o.disk, <<"get", 1>>, FromBuf(f, 1), o.lost)
    BY <1>5, <1>7, <2>2 DEF Done
  <2>3. ASSUME CanRead(f), NEW m \in Readable(o.disk, Len(f.buf)),
               IF m <= 0
                    THEN Done(AfterRead([f EXCEPT !.bufpos = 0, !.bufread = 0], m),
                              o.disk, <<"get", 1>>, <<>>, o.lost)
                    ELSE Done([f EXCEPT !.buf = Store(f, 0, Here(o.disk, m)),
                                        !.bufpos = 1, !.bufread = m,
                                        !.reading = TRUE, !.ungot = FALSE],
                              Advanced(o.disk, m), <<"get", 1>>, Here(o.disk, 1), o.lost)
        PROVE  lost' \in BOOLEAN /\ InTune(fp', disk', lost')
    <3>1. m \in Int
      BY <1>11
    <3>2. CASE m <= 0
      BY <1>5, <1>8, <2>3, <3>2 DEF Done
    <3>3. CASE m > 0
      <4>1. ~ m <= 0
        BY <3>1, <3>3
      <4>2. /\ fp' = [f EXCEPT !.buf = Store(f, 0, Here(o.disk, m)), !.bufpos = 1, !.bufread = m,
                             !.reading = TRUE, !.ungot = FALSE]
            /\ disk' = Advanced(o.disk, m)
        BY <2>3, <4>1, Zenon DEF Done
      <4> QED
        BY <1>5, <1>10, <2>3, <3>3, <4>2
    <3> QED
      BY <3>1, <3>2, <3>3
  <2> QED
    BY <1>1, <2>1, <2>2, <2>3 DEF f

\* The bytes s written into the buffer.
Put(f, s, n) ==
    [f EXCEPT !.buf = Store(f, f.bufpos, s), !.bufpos = @ + n, !.writing = TRUE]

LEMMA PutIs ==
  ASSUME NEW f, GoodFile(f), NEW s \in Seq(Octets), NEW n \in Nat
  PROVE  /\ GoodFile(Put(f, s, n)) /\ Put(f, s, n).reading = f.reading
         /\ Put(f, s, n).eof = f.eof /\ Put(f, s, n).err = f.err
<1>1. f \in FileRecord /\ f.bufread <= Len(f.buf) /\ Len(f.buf) \in 1 .. Word - 1 /\ f.bufpos \in Nat
  BY DEF GoodFile, FileRecord
<1>2. PICK b \in Seq(Octets) : b = Store(f, f.bufpos, s) /\ Len(b) = Len(f.buf)
  BY <1>1, StoreIs
<1>3. f = [buf |-> f.buf, bufpos |-> f.bufpos, bufread |-> f.bufread, buffering |-> f.buffering,
           reading |-> f.reading, writing |-> f.writing, eof |-> f.eof, err |-> f.err, ungot |-> f.ungot]
  BY <1>1 DEF FileRecord
<1>4. Put(f, s, n) = [f EXCEPT !.buf = b, !.bufpos = @ + n, !.writing = TRUE]
  BY <1>2, Zenon DEF Put
<1>5. PICK p \in Nat : p = f.bufpos + n
  BY <1>1
<1>6. Put(f, s, n)
        = [buf |-> b, bufpos |-> p, bufread |-> f.bufread, buffering |-> f.buffering,
           reading |-> f.reading, writing |-> TRUE, eof |-> f.eof, err |-> f.err, ungot |-> f.ungot]
  BY <1>3, <1>4, <1>5
<1>7. Put(f, s, n) \in FileRecord
  BY <1>1, <1>2, <1>6 DEF FileRecord
<1>8. /\ Put(f, s, n).buf = b /\ Put(f, s, n).bufread = f.bufread
      /\ Put(f, s, n).reading = f.reading /\ Put(f, s, n).eof = f.eof /\ Put(f, s, n).err = f.err
  BY <1>6
<1> QED
  BY <1>1, <1>2, <1>7, <1>8 DEF GoodFile

LEMMA UngetcIs ==
  ASSUME StreamInv, program.fails \in BOOLEAN, NEW b \in UngetBytes, ungetc(b)
  PROVE  lost' \in BOOLEAN /\ InTune(fp', disk', lost')
<1>1. PICK o \in FlushIf(fp.writing, fp, disk) :
        LET f == [o.fp EXCEPT !.ungot = TRUE]
            room == f.bufpos > 0 \/ f.bufread = 0
        IN  IF ~ ("read" \in program.access /\ ~ f.err)
            THEN End(o, <<"unget", b>>)
            ELSE /\ call' = <<"unget", b>> /\ got' = <<>>
                 /\ disk' = o.disk /\ lost' = (lost \/ o.lost)
                 /\ \/ /\ f.bufpos > 0
                       /\ fp' = [f EXCEPT !.bufpos = @ - 1, !.buf = Store(f, f.bufpos - 1, <<b>>)]
                    \/ /\ f.bufpos = 0 /\ f.bufread = 0
                       /\ fp' = [f EXCEPT !.bufread = 1, !.buf = Store(f, 0, <<b>>)]
                    \/ ~ room /\ fp' = f
  BY DEF ungetc
<1>2. /\ fp.writing \in BOOLEAN /\ lost \in BOOLEAN /\ InTune(fp, disk, lost)
  BY DEF StreamInv, InTune, GoodFile, FileRecord
<1>3. /\ \A k \in BOOLEAN : (k <=> lost \/ o.lost) => InTune(o.fp, o.disk, k)
      /\ o.lost \in BOOLEAN
  BY <1>2, StartIs
<1>4. lost' = (lost \/ o.lost)
  BY <1>1 DEF End, Done
<1>5. lost' \in BOOLEAN /\ InTune(o.fp, o.disk, lost')
  BY <1>2, <1>3, <1>4
<1> DEFINE f == [o.fp EXCEPT !.ungot = TRUE]
<1>6. f.ungot /\ GoodFile(f) /\ InTune(f, o.disk, lost')
  <2>1. GoodFile(o.fp) /\ o.fp \in FileRecord
    BY <1>5 DEF InTune, GoodFile
  <2>2. /\ f \in FileRecord /\ f.ungot = TRUE /\ f.buf = o.fp.buf /\ f.bufread = o.fp.bufread
        /\ f.reading = o.fp.reading /\ f.writing = o.fp.writing /\ f.eof = o.fp.eof /\ f.err = o.fp.err
    BY <2>1 DEF FileRecord
  <2> QED
    BY <1>5, <2>1, <2>2 DEF InTune, GoodFile
<1> HIDE DEF f
<1>7. <<b>> \in Seq(Octets) /\ Len(<<b>>) = 1
  BY DEF Octets
<1> DEFINE s(k) == Store(f, k, <<b>>)
<1>8. ASSUME NEW k \in Int PROVE s(k) \in Seq(Octets) /\ Len(s(k)) = Len(f.buf)
  BY <1>6, <1>7, StoreIs
<1> HIDE DEF s
<1>9. /\ f \in FileRecord /\ f.bufread <= Len(f.buf) /\ Len(f.buf) \in 1 .. Word - 1 
      /\ f.bufpos \in Nat
  BY <1>6 DEF GoodFile, FileRecord
<1>10. f = [buf |-> f.buf, bufpos |-> f.bufpos, bufread |-> f.bufread, buffering |-> f.buffering,
           reading |-> f.reading, writing |-> f.writing, eof |-> f.eof, err |-> f.err, ungot |-> f.ungot]
  BY <1>9 DEF FileRecord
<1>11. CASE f.bufpos > 0 /\ fp' = [f EXCEPT !.bufpos = @ - 1, !.buf = s(f.bufpos - 1)] /\ disk' = o.disk
  <2>1. fp' = [buf |-> s(f.bufpos - 1), bufpos |-> f.bufpos - 1, bufread |-> f.bufread, buffering |-> f.buffering,
           reading |-> f.reading, writing |-> f.writing, eof |-> f.eof, err |-> f.err, ungot |-> f.ungot]
    BY <1>10, <1>11
  <2>2. f.bufpos - 1 \in Nat
    BY <1>9, <1>11
  <2>3. GoodFile(fp')
    BY <1>8, <1>9, <2>1, <2>2 DEF GoodFile, FileRecord
  <2> QED
    BY <1>5, <1>6, <1>11, <2>1, <2>3 DEF InTune
<1>12. CASE fp' = [f EXCEPT !.bufread = 1, !.buf = s(0)] /\ disk' = o.disk
  <2>1. fp' = [buf |-> s(0), bufpos |-> f.bufpos, bufread |-> 1, buffering |-> f.buffering,
           reading |-> f.reading, writing |-> f.writing, eof |-> f.eof, err |-> f.err, ungot |-> f.ungot]
    BY <1>10, <1>12
  <2>3. GoodFile(fp')
    BY <1>8, <1>9, <2>1 DEF GoodFile, FileRecord
  <2> QED
    BY <1>5, <1>6, <1>12, <2>1, <2>3 DEF InTune
<1> QED
  <2>1. CASE End(o, <<"unget", b>>)
    BY <1>5, <2>1 DEF End, Done
  <2>2. CASE fp' = f /\ disk' = o.disk
    BY <1>5, <1>6, <2>2
  <2> QED
    BY <1>1, <1>5, <1>11, <1>12, <2>1, <2>2 DEF f, s

LEMMA FputcIs ==
  ASSUME StreamInv, program.fails \in BOOLEAN, NEW b \in PutBytes, fputc(b)
  PROVE  lost' \in BOOLEAN /\ InTune(fp', disk', lost')
<1> DEFINE c == <<"put", <<b>>>>
           c3 == \/ fp.buffering = "none"
                 \/ fp.buffering = "line" /\ b = NewLine
           f3(o2) == Put(o2.fp, <<b>>, 1)
<1>1. PICK o \in FlushIf(fp.reading, fp, disk) :
        IF o.lost \/ ~ CanWrite(fp)
        THEN End(o, c)
        ELSE \E o2 \in FlushIf(Full(o.fp), o.fp, o.disk) :
               IF o2.lost
               THEN End(o2, c)
               ELSE \E o3 \in FlushIf(c3, f3(o2), o2.disk) : End(o3, c)
  BY DEF fputc, Put
<1> HIDE DEF c, c3, f3
<1>2. /\ fp.reading \in BOOLEAN /\ lost \in BOOLEAN /\ InTune(fp, disk, lost)
  BY DEF StreamInv, InTune, GoodFile, FileRecord
<1>3. /\ \A k \in BOOLEAN : (k <=> lost \/ o.lost) => InTune(o.fp, o.disk, k)
      /\ o.lost \in BOOLEAN /\ (~ fp.eof => ~ o.fp.eof)
  BY <1>2, StartIs
<1>4. CASE End(o, c)
  BY <1>2, <1>3, <1>4 DEF End, Done
<1>5. ASSUME ~ o.lost, CanWrite(fp), NEW o2 \in FlushIf(Full(o.fp), o.fp, o.disk),
             IF o2.lost
             THEN End(o2, c)
             ELSE \E o3 \in FlushIf(c3, f3(o2), o2.disk) : End(o3, c)
      PROVE  lost' \in BOOLEAN /\ InTune(fp', disk', lost')
  <2>1. InTune(o.fp, o.disk, lost) /\ ~ o.fp.eof
    BY <1>2, <1>3, <1>5 DEF CanWrite
  <2>2. Full(o.fp) \in BOOLEAN
    BY DEF Full
  <2>3. /\ \A k \in BOOLEAN : (k <=> lost \/ o2.lost) => InTune(o2.fp, o2.disk, k)
        /\ o2.lost \in BOOLEAN /\ ~ o2.fp.eof
    BY <1>2, <1>5, <2>1, <2>2, StartIs
  <2>4. CASE End(o2, c)
    BY <1>2, <2>3, <2>4 DEF End, Done
  <2>5. ASSUME ~ o2.lost, NEW o3 \in FlushIf(c3, f3(o2), o2.disk), End(o3, c)
        PROVE  lost' \in BOOLEAN /\ InTune(fp', disk', lost')
    <3>1. InTune(o2.fp, o2.disk, lost)
      BY <1>2, <2>3, <2>5
    <3>2. GoodFile(o2.fp) /\ o2.fp.bufpos \in Int /\ o2.fp.bufpos + 1 \in Nat
      BY <3>1 DEF InTune, GoodFile, FileRecord
    <3>3. <<b>> \in Seq(Octets)
      BY DEF Octets
    <3>4. /\ GoodFile(f3(o2)) /\ f3(o2).reading = o2.fp.reading /\ f3(o2).eof = o2.fp.eof
          /\ f3(o2).err = o2.fp.err
      BY <3>2, <3>3, PutIs DEF f3
    <3>5. InTune(f3(o2), o2.disk, lost)
      BY <2>3, <3>1, <3>4 DEF InTune
    <3>6. c3 \in BOOLEAN
      BY DEF c3
    <3>7. /\ \A k \in BOOLEAN : (k <=> lost \/ o3.lost) => InTune(o3.fp, o3.disk, k)
          /\ o3.lost \in BOOLEAN
      BY <1>2, <2>5, <3>5, <3>6, StartIs
    <3> QED
      BY <1>2, <2>5, <3>7 DEF End, Done
  <2> QED
    BY <1>5, <2>3, <2>4, <2>5
<1> QED
  BY <1>1, <1>4, <1>5

\* A call that does not find n bytes in the buffer has used all it finds.
LEMMA TakenIs ==
  ASSUME NEW f, GoodFile(f), NEW n \in Nat, (f.bufread - f.bufpos) % Word < n
  PROVE  f.bufread <= IF f.bufread - f.bufpos > 0 THEN f.bufpos + n ELSE f.bufpos
<1>1. PICK y \in Nat, z \in Nat : y = f.bufread /\ z = f.bufpos
  BY DEF GoodFile, FileRecord
<1>2. PICK L \in Int : L = Len(f.buf) /\ L <= Word - 1 /\ y <= L
  BY <1>1 DEF GoodFile
<1>3. Word = 65536
  BY DEF Word
<1>4. (y - z) % Word < n
  BY <1>1
<1>5. y - z > 0 => (y - z) % 65536 = y - z
  BY <1>2, <1>3
<1>6. y <= IF y - z > 0 THEN z + n ELSE z
  BY <1>3, <1>4, <1>5
<1> QED
  BY <1>1, <1>6

LEMMA FreadIs ==
  ASSUME StreamInv, program.fails \in BOOLEAN, Uses("fread"), NEW n \in 1 .. Word - 1, fread(n)
  PROVE  lost' \in BOOLEAN /\ InTune(fp', disk', lost')
<1> DEFINE c == <<"get", n>>
<1>1. PICK o \in FlushIf(fp.writing, fp, disk) :
        LET f == o.fp
            len == f.bufread - f.bufpos
            taken == IF len > 0 THEN len ELSE 0
        IN  \/ ~ CanRead(fp) /\ End(o, c)
            \/ /\ CanRead(fp) /\ len % Word >= n
               /\ Done([f EXCEPT !.bufpos = @ + n], o.disk, c, FromBuf(f, n), o.lost)
            \/ /\ CanRead(fp) /\ len % Word < n
               /\ \E m \in Readable(o.disk, n - taken) :
                    Done(AfterRead([f EXCEPT !.bufpos = IF len > 0 THEN @ + n ELSE @], m),
                           Advanced(o.disk, m), c,
                           FromBuf(f, taken) \o Here(o.disk, m), o.lost)
  BY DEF fread
<1> HIDE DEF c
<1> DEFINE f == o.fp
           len == f.bufread - f.bufpos
           taken == IF len > 0 THEN len ELSE 0
<1>2. /\ fp.writing \in BOOLEAN /\ lost \in BOOLEAN /\ InTune(fp, disk, lost)
  BY DEF StreamInv, InTune, GoodFile, FileRecord
<1>3. /\ \A k \in BOOLEAN : (k <=> lost \/ o.lost) => InTune(f, o.disk, k)
      /\ o.lost \in BOOLEAN /\ (~ fp.eof => ~ f.eof) /\ ~ f.writing
  BY <1>2, StartIs DEF AfterFlush
<1>4. lost' = (lost \/ o.lost)
  BY <1>1 DEF End, Done
<1>5. lost' \in BOOLEAN /\ InTune(f, o.disk, lost')
  BY <1>2, <1>3, <1>4
<1> HIDE DEF f
<1>6. CASE End(o, c)
  BY <1>5, <1>6 DEF End, Done, f
<1>7. /\ f \in FileRecord /\ GoodDisk(o.disk) /\ len \in Int /\ f.bufpos \in Nat /\ f.bufread \in Nat
      /\ f.bufread <= Len(f.buf) /\ Len(f.buf) \in 1 .. Word - 1
  BY <1>5 DEF InTune, GoodFile, FileRecord
<1>8. CASE CanRead(fp) /\ fp' = [f EXCEPT !.bufpos = @ + n] /\ disk' = o.disk
  BY <1>3, <1>5, <1>7, <1>8 DEF CanRead, InTune, GoodFile, FileRecord
<1>9. ASSUME CanRead(fp), len % Word < n, NEW m \in Readable(o.disk, n - taken),
             fp' = AfterRead([f EXCEPT !.bufpos = IF len > 0 THEN @ + n ELSE @], m),
             disk' = Advanced(o.disk, m)
      PROVE  InTune(fp', disk', lost')
  <2>1. /\ m \in Int /\ GoodDisk(disk') /\ (m < 0 => program.fails)
        /\ (m = 0 => disk' = o.disk /\ o.disk.at = Len(o.disk.data))
    BY <1>7, <1>9, ReadIs
  <2>2. PICK p \in Nat : p = IF len > 0 THEN f.bufpos + n ELSE f.bufpos
    BY <1>7
  <2>3. f.bufread <= p
    BY <1>5, <1>9, <2>2, TakenIs DEF InTune
  <2>4. fp' = AfterRead([f EXCEPT !.bufpos = p], m)
    BY <1>9, <2>2
  <2>5. /\ fp' \in FileRecord /\ fp'.bufpos = p /\ fp'.bufread = f.bufread /\ fp'.buf = f.buf
        /\ fp'.reading = f.reading /\ fp'.writing = f.writing /\ fp'.ungot = f.ungot
        /\ (f.err => fp'.err) /\ (fp'.eof => f.eof \/ m = 0)
    BY <1>7, <2>1, <2>4 DEF AfterRead, FileRecord
  <2>6. f.reading => "fgetc" \in program.calls
    BY <1>5 DEF InTune
  <2>7. GoodFile(fp')
    BY <1>7, <2>5 DEF GoodFile
  <2>8. ~ f.eof /\ ~ f.writing
    BY <1>3, <1>9 DEF CanRead
  <2>9. ASSUME Separate, fp'.eof
        PROVE  AtEnd(fp', disk') /\ (fp'.reading => "fseek" \notin program.calls)
    BY <2>1, <2>3, <2>5, <2>6, <2>8, <2>9 DEF AtEnd, Separate, Uses
  <2> QED
    BY <1>5, <2>1, <2>5, <2>6, <2>7, <2>8, <2>9 DEF InTune
<1> QED
  <2>1. CASE CanRead(fp) /\ Done([f EXCEPT !.bufpos = @ + n], o.disk, c, FromBuf(f, n), o.lost)
    BY <1>5, <1>8, <2>1 DEF Done
  <2>2. ASSUME CanRead(fp), len % Word < n, NEW m \in Readable(o.disk, n - taken),
               Done(AfterRead([f EXCEPT !.bufpos = IF len > 0 THEN @ + n ELSE @], m),
                           Advanced(o.disk, m), c,
                           FromBuf(f, taken) \o Here(o.disk, m), o.lost)
        PROVE  InTune(fp', disk', lost')
    BY <1>9, <2>2 DEF Done
  <2> QED
    BY <1>1, <1>5, <1>6, <2>1, <2>2 DEF f

LEMMA FwriteIs ==
  ASSUME StreamInv, program.fails \in BOOLEAN, NEW b \in PutBytes, NEW n \in Nat,
         fwrite(b, n)
  PROVE  lost' \in BOOLEAN /\ InTune(fp', disk', lost')
<1> DEFINE s == [i \in 1 .. n |-> b]
<1>2. s \in Seq(Octets) /\ Len(s) = n
  BY DEF Octets
<1> DEFINE c == <<"put", s>>
           c2(o) == ~ Fits(n, o.fp)
           c3(o2) == o2.fp.buffering # "full"
           Rest(o2) ==
             LET f == o2.fp
             IN  \/ o2.lost /\ End(o2, c)
                 \/ /\ ~ o2.lost /\ Fits(n, f)
                    /\ \E o3 \in FlushIf(c3(o2), Put(f, s, n), o2.disk) :
                         End(o3, c)
                 \/ /\ ~ o2.lost /\ ~ Fits(n, f)
                    /\ \E k \in Accepted(n), failed \in BOOLEAN :
                         /\ failed => program.fails
                         /\ Done([f EXCEPT !.err = @ \/ failed],
                                 WriteAt(o2.disk, SubSeq(s, 1, k)), c, <<>>, FALSE)
<1>3. PICK o \in FlushIf(fp.reading, fp, disk) :
        IF o.lost \/ ~ CanWrite(fp)
        THEN End(o, c)
        ELSE \E o2 \in FlushIf(c2(o), o.fp, o.disk) : Rest(o2)
  BY Zenon DEF fwrite, Put
<1> HIDE DEF s, c, c2, c3
<1>4. /\ fp.reading \in BOOLEAN /\ lost \in BOOLEAN /\ InTune(fp, disk, lost)
  BY DEF StreamInv, InTune, GoodFile, FileRecord
<1>5. /\ \A k \in BOOLEAN : (k <=> lost \/ o.lost) => InTune(o.fp, o.disk, k)
      /\ o.lost \in BOOLEAN /\ (~ fp.eof => ~ o.fp.eof)
  BY <1>4, StartIs
<1>6. CASE End(o, c)
  BY <1>4, <1>5, <1>6 DEF End, Done
<1>7. ASSUME ~ o.lost, CanWrite(fp), NEW o2 \in FlushIf(c2(o), o.fp, o.disk),
             Rest(o2)
      PROVE  lost' \in BOOLEAN /\ InTune(fp', disk', lost')
  <2>1. InTune(o.fp, o.disk, lost) /\ ~ o.fp.eof
    BY <1>4, <1>5, <1>7 DEF CanWrite
  <2>2. c2(o) \in BOOLEAN
    BY DEF c2
  <2>3. /\ \A k \in BOOLEAN : (k <=> lost \/ o2.lost) => InTune(o2.fp, o2.disk, k)
        /\ o2.lost \in BOOLEAN /\ ~ o2.fp.eof
    BY <1>4, <1>7, <2>1, <2>2, StartIs
  <2>4. CASE End(o2, c)
    BY <1>4, <2>3, <2>4 DEF End, Done
  <2>5. ASSUME ~ o2.lost
        PROVE  GoodFile(o2.fp) /\ GoodDisk(o2.disk) /\ InTune(o2.fp, o2.disk, lost)
    BY <1>4, <2>3, <2>5 DEF InTune
  <2>6. ASSUME ~ o2.lost, NEW o3 \in FlushIf(c3(o2), Put(o2.fp, s, n), o2.disk),
               End(o3, c)
        PROVE  lost' \in BOOLEAN /\ InTune(fp', disk', lost')
    <3>1. /\ GoodFile(Put(o2.fp, s, n)) /\ Put(o2.fp, s, n).reading = o2.fp.reading
          /\ Put(o2.fp, s, n).eof = o2.fp.eof /\ Put(o2.fp, s, n).err = o2.fp.err
      BY <1>2, <2>5, <2>6, PutIs
    <3>2. InTune(Put(o2.fp, s, n), o2.disk, lost)
      BY <2>3, <2>5, <2>6, <3>1 DEF InTune
    <3>3. c3(o2) \in BOOLEAN
      BY DEF c3
    <3>4. /\ \A k \in BOOLEAN : (k <=> lost \/ o3.lost) => InTune(o3.fp, o3.disk, k)
          /\ o3.lost \in BOOLEAN
      BY <1>4, <2>6, <3>2, <3>3, StartIs
    <3> QED
      BY <1>4, <2>6, <3>4 DEF End, Done
  <2>7. ASSUME ~ o2.lost, NEW k \in Accepted(n), NEW failed \in BOOLEAN,
               Done([o2.fp EXCEPT !.err = @ \/ failed],
                    WriteAt(o2.disk, SubSeq(s, 1, k)), c, <<>>, FALSE)
        PROVE  lost' \in BOOLEAN /\ InTune(fp', disk', lost')
    <3>1. k \in 0 .. n
      BY <2>7 DEF Accepted
    <3>2. SubSeq(s, 1, k) \in Seq(Octets)
      BY <1>2, <3>1
    <3>3. GoodDisk(disk')
      BY <2>5, <2>7, <3>2, WriteIs DEF Done
    <3>4. PICK e \in BOOLEAN : e <=> o2.fp.err \/ failed
      OBVIOUS
    <3>5. fp' = [o2.fp EXCEPT !.err = e] /\ lost' = lost
      BY <1>4, <2>5, <2>7, <3>4 DEF Done, GoodFile, FileRecord
    <3>6. /\ fp' \in FileRecord /\ fp'.buf = o2.fp.buf /\ fp'.bufread = o2.fp.bufread
          /\ fp'.reading = o2.fp.reading /\ fp'.eof = o2.fp.eof /\ fp'.err = e
      BY <2>5, <2>7, <3>5 DEF GoodFile, FileRecord
    <3>7. GoodFile(fp')
      BY <2>5, <2>7, <3>6 DEF GoodFile
    <3> QED
      BY <1>4, <2>3, <2>5, <2>7, <3>1, <3>3, <3>4, <3>5, <3>6, <3>7 DEF InTune
  <2> QED
    BY <1>7, <2>3, <2>4, <2>6, <2>7
<1> QED
  BY <1>3, <1>6, <1>7

\* A call that starts with a flush.
LEMMA FlushKeeps ==
  ASSUME StreamInv, program.fails \in BOOLEAN, NEW o \in Flush(fp, disk)
  PROVE  /\ o.lost \in BOOLEAN /\ InTune(o.fp, o.disk, lost \/ o.lost)
         /\ AfterFlush(fp, disk, o)
<1>1. lost \in BOOLEAN /\ InTune(fp, disk, lost) /\ GoodFile(fp) /\ GoodDisk(disk)
  BY DEF StreamInv, InTune
<1>2. AfterFlush(fp, disk, o)
  BY <1>1, FlushIs
<1>3. GoodFile(o.fp) /\ GoodDisk(o.disk) /\ o.lost \in BOOLEAN
  BY <1>2 DEF AfterFlush, Outcome
<1> QED
  BY <1>1, <1>2, <1>3 DEF AfterFlush, InTune

LEMMA FflushIs ==
  ASSUME StreamInv, program.fails \in BOOLEAN, fflush \/ ftell
  PROVE  lost' \in BOOLEAN /\ InTune(fp', disk', lost')
<1>1. PICK o \in Flush(fp, disk) : fp' = o.fp /\ disk' = o.disk /\ lost' = (lost \/ o.lost)
  BY DEF fflush, ftell, End, Done
<1> QED
  BY <1>1, FlushKeeps DEF StreamInv

LEMMA ClearerrIs ==
  ASSUME StreamInv, clearerr
  PROVE  lost' \in BOOLEAN /\ InTune(fp', disk', lost')
<1>1. GoodFile(fp) /\ fp \in FileRecord /\ GoodDisk(disk) /\ (fp.reading => "fgetc" \in program.calls)
  BY DEF StreamInv, InTune, GoodFile
<1>2. fp' = [fp EXCEPT !.eof = FALSE, !.err = FALSE] /\ disk' = disk /\ lost' = FALSE
  BY DEF clearerr
<1>3. /\ fp' \in FileRecord /\ fp'.buf = fp.buf /\ fp'.bufread = fp.bufread
      /\ fp'.reading = fp.reading /\ fp'.eof = FALSE
  BY <1>1, <1>2 DEF FileRecord
<1>4. GoodFile(fp')
  BY <1>1, <1>3 DEF GoodFile
<1> QED
  BY <1>1, <1>2, <1>3, <1>4 DEF InTune

LEMMA SetvbufIs ==
  ASSUME StreamInv, program.fails \in BOOLEAN, StdioAssumption,
         NEW h \in Bufferings, NEW z \in BufSizes, setvbuf(h, z)
  PROVE  lost' \in BOOLEAN /\ InTune(fp', disk', lost')
<1>1. PICK o \in Flush(fp, disk) :
        End([o EXCEPT !.fp.buf = [i \in 1 .. z |-> Junk], !.fp.buffering = h], <<"sync", 0>>)
  BY DEF setvbuf
<1>2. /\ o.lost \in BOOLEAN /\ InTune(o.fp, o.disk, lost \/ o.lost) /\ lost \in BOOLEAN
      /\ o \in Outcome /\ ~ o.fp.eof /\ ~ o.fp.writing /\ ~ o.fp.reading /\ o.fp.bufread = 0
  BY FlushKeeps DEF StreamInv, AfterFlush
<1>3. PICK b : b = [i \in 1 .. z |-> Junk]
  OBVIOUS
<1>4. b \in Seq(Octets) /\ Len(b) = z /\ z \in 1 .. Word - 1
  <2>1. z \in 1 .. Word - 1
    BY DEF StdioAssumption
  <2>2. z \in Nat
    BY <2>1
  <2> QED
    BY <1>3, <2>1, <2>2 DEF Octets
<1>5. /\ fp' = [o.fp EXCEPT !.buf = b, !.buffering = h]
      /\ disk' = o.disk /\ lost' = (lost \/ o.lost)
  BY <1>1, <1>2, <1>3 DEF End, Done, Outcome
<1>6. o.fp \in FileRecord
  BY <1>2 DEF InTune, GoodFile
<1>7. /\ fp' \in FileRecord /\ fp'.buf = b /\ fp'.bufread = o.fp.bufread
      /\ fp'.reading = o.fp.reading /\ fp'.writing = o.fp.writing /\ fp'.eof = o.fp.eof /\ fp'.err = o.fp.err
  BY <1>4, <1>5, <1>6 DEF FileRecord
<1>8. GoodFile(fp')
  <2>1. z >= 0 /\ o.fp.bufread = 0
    BY <1>2, <1>4
  <2> QED
    BY <1>4, <1>7, <2>1 DEF GoodFile
<1> QED
  BY <1>2, <1>5, <1>7, <1>8 DEF InTune

\* A seek goes within the buffer, or through fflush and lseek.
LEMMA SeekWays ==
  ASSUME StreamInv, program.fails \in BOOLEAN, NEW off \in Int,
         NEW ref \in {"set", "cur", "end"},
         NEW q \in SeekOutcomes(fp, disk, off, ref)
  PROVE  \/ /\ fp.reading /\ ~ fp.ungot /\ fp.bufread # 0
            /\ \E p \in Nat : q = [fp |-> [fp EXCEPT !.bufpos = p], disk |-> disk, lost |-> FALSE]
         \/ \E o \in Flush(fp, disk) :
              \/ q = o
              \/ \E at \in Nat : q = [o EXCEPT !.disk.at = at] /\ (ref = "set" => at = off)
<1> DEFINE goal == IF ref = "cur" THEN off + disk.at + (fp.bufpos - fp.bufread) ELSE off
           at(o) == CASE ref = "set" \/ (ref = "cur" /\ Fast(fp)) -> goal
                      [] ref = "cur" /\ ~ Fast(fp) -> o.disk.at + off
                      [] ref = "end" -> Size(o.disk) + off
<1>1. /\ fp.bufpos \in Nat /\ fp.bufread \in Nat /\ disk.at \in Nat /\ goal \in Int
  BY DEF StreamInv, InTune, GoodFile, GoodDisk, FileRecord
<1>2. CASE Fast(fp) /\ ref # "end" /\ goal < disk.at /\ goal >= disk.at - fp.bufread
  <2>1. q = [fp |-> [fp EXCEPT !.bufpos = goal - disk.at + fp.bufread], disk |-> disk, lost |-> FALSE]
    BY <1>2 DEF SeekOutcomes
  <2> HIDE DEF goal
  <2>2. goal - disk.at + fp.bufread \in Nat /\ fp.bufread # 0
    BY <1>1, <1>2
  <2> QED
    BY <1>2, <2>1, <2>2 DEF Fast
<1>3. CASE ~ (Fast(fp) /\ ref # "end" /\ goal < disk.at /\ goal >= disk.at - fp.bufread)
  <2>1. PICK o \in Flush(fp, disk) :
          q = IF o.lost \/ at(o) < 0 THEN o ELSE [o EXCEPT !.disk.at = at(o)]
    BY <1>3 DEF SeekOutcomes
  <2>2. CASE o.lost \/ at(o) < 0
    BY <2>1, <2>2
  <2>3. CASE ~ (o.lost \/ at(o) < 0)
    <3>1. o.disk.at \in Nat /\ Size(o.disk) \in Nat
      BY FlushKeeps DEF InTune, GoodDisk, Size
    <3>2. at(o) \in Int
      BY <1>1, <3>1
    <3>3. ref = "set" => at(o) = off
      OBVIOUS
    <3> HIDE DEF at
    <3>4. at(o) \in Nat /\ q = [o EXCEPT !.disk.at = at(o)]
      BY <2>1, <2>3, <3>2
    <3> QED
      BY <3>3, <3>4
  <2> QED
    BY <2>2, <2>3
<1> QED
  BY <1>2, <1>3

\* What a seek that stays in the file leaves.
LEMMA SeekIs ==
  ASSUME StreamInv, program.fails \in BOOLEAN, NEW off \in Int,
         NEW ref \in {"set", "cur", "end"},
         NEW q \in SeekOutcomes(fp, disk, off, ref),
         q.disk.at <= Len(q.disk.data) \/ (ref = "set" /\ off = 0)
  PROVE  /\ q \in Outcome
         /\ q.fp.reading => "fgetc" \in program.calls
         /\ lost \/ q.lost => program.fails
         /\ "fseek" \in program.calls => InTune(q.fp, q.disk, lost \/ q.lost)
<1>1. CASE /\ fp.reading /\ ~ fp.ungot /\ fp.bufread # 0
           /\ \E p \in Nat : q = [fp |-> [fp EXCEPT !.bufpos = p], disk |-> disk, lost |-> FALSE]
  <2>1. PICK p \in Nat : q = [fp |-> [fp EXCEPT !.bufpos = p], disk |-> disk, lost |-> FALSE]
    BY <1>1
  <2>2. fp \in FileRecord /\ GoodFile(fp) /\ GoodDisk(disk) /\ InTune(fp, disk, lost) /\ lost \in BOOLEAN
    BY DEF StreamInv, InTune, GoodFile
  <2>3. PICK g : g = [fp EXCEPT !.bufpos = p]
    OBVIOUS
  <2>4. /\ g \in FileRecord /\ g.buf = fp.buf /\ g.bufread = fp.bufread /\ g.reading = fp.reading
        /\ g.writing = fp.writing /\ g.eof = fp.eof /\ g.err = fp.err /\ g.ungot = fp.ungot
    BY <2>2, <2>3 DEF FileRecord
  <2>5. GoodFile(g)
    BY <2>2, <2>4 DEF GoodFile
  <2>6. q = [fp |-> g, disk |-> disk, lost |-> FALSE]
    BY <2>1, <2>3
  <2>7. q.fp = g /\ q.disk = disk /\ q.lost = FALSE
    BY <2>6
  <2>8. q \in Outcome
    BY <2>2, <2>4, <2>5, <2>6 DEF Outcome, GoodDisk
  <2>9. "fseek" \in program.calls => InTune(g, disk, lost)
    BY <1>1, <2>2, <2>4, <2>5 DEF InTune
  <2> QED
    BY <1>1, <2>2, <2>4, <2>7, <2>8, <2>9 DEF InTune
<1>2. ASSUME NEW o \in Flush(fp, disk), q = o
      PROVE  q \in Outcome /\ InTune(q.fp, q.disk, lost \/ q.lost)
  BY <1>2, FlushKeeps DEF AfterFlush
<1>3. ASSUME NEW o \in Flush(fp, disk), NEW at \in Nat,
             q = [o EXCEPT !.disk.at = at], ref = "set" => at = off
      PROVE  q \in Outcome /\ InTune(q.fp, q.disk, lost \/ q.lost)
  <2>1. o \in Outcome /\ InTune(o.fp, o.disk, lost \/ o.lost) /\ ~ o.fp.eof /\ lost \in BOOLEAN
    BY FlushKeeps DEF AfterFlush, StreamInv
  <2>2. GoodDisk(o.disk) /\ o.disk \in [data : Seq(Octets), at : Nat] /\ Len(o.disk.data) \in Nat
    BY <2>1 DEF Outcome, GoodDisk
  <2>3. PICK d : d = [o.disk EXCEPT !.at = at]
    OBVIOUS
  <2>4. d \in [data : Seq(Octets), at : Nat] /\ d.data = o.disk.data /\ d.at = at
    BY <2>2, <2>3
  <2>5. o = [fp |-> o.fp, disk |-> o.disk, lost |-> o.lost]
    BY <2>1 DEF Outcome
  <2>6. q = [fp |-> o.fp, disk |-> d, lost |-> o.lost]
    BY <1>3, <2>3, <2>5
  <2>7. q.fp = o.fp /\ q.disk = d /\ q.lost = o.lost
    BY <2>6
  <2>8. GoodDisk(d)
    BY <1>3, <2>2, <2>4, <2>7 DEF GoodDisk
  <2>9. q \in Outcome
    BY <2>1, <2>4, <2>6, <2>8 DEF Outcome
  <2> QED
    BY <2>1, <2>7, <2>8, <2>9 DEF InTune
<1> QED
  BY <1>1, <1>2, <1>3, SeekWays DEF InTune

LEMMA FseekIs ==
  ASSUME StreamInv, program.fails \in BOOLEAN, Uses("fseek"), NEW off \in Int,
         NEW ref \in {"set", "cur", "end"}, fseek(off, ref)
  PROVE  lost' \in BOOLEAN /\ InTune(fp', disk', lost')
<1>1. PICK q \in SeekOutcomes(fp, disk, off, ref) :
        q.disk.at <= Size(q.disk) /\ fp' = q.fp /\ disk' = q.disk /\ lost' = (lost \/ q.lost)
  BY DEF fseek, End, Done
<1>2. q.disk.at <= Len(q.disk.data)
  BY <1>1 DEF Size
<1>3. q \in Outcome /\ InTune(q.fp, q.disk, lost \/ q.lost)
  BY <1>2, SeekIs DEF Uses
<1> QED
  BY <1>1, <1>3 DEF Outcome, StreamInv

LEMMA RewindIs ==
  ASSUME StreamInv, program.fails \in BOOLEAN, Uses("rewind"), rewind
  PROVE  lost' \in BOOLEAN /\ InTune(fp', disk', lost')
<1>1. PICK q \in SeekOutcomes(fp, disk, 0, "set") :
        End([q EXCEPT !.fp.eof = FALSE, !.fp.err = FALSE], <<"seek", 0>>)
  BY DEF rewind
<1>2. q \in Outcome /\ (q.fp.reading => "fgetc" \in program.calls) /\ (lost \/ q.lost => program.fails)
  BY SeekIs
<1>3. q = [fp |-> q.fp, disk |-> q.disk, lost |-> q.lost] /\ q.lost \in BOOLEAN
      /\ GoodDisk(q.disk) /\ GoodFile(q.fp) /\ q.fp \in FileRecord
  BY <1>2 DEF Outcome
<1>4. PICK g : g = [q.fp EXCEPT !.eof = FALSE, !.err = FALSE]
  OBVIOUS
<1>5. /\ fp' = [q.fp EXCEPT !.eof = FALSE, !.err = FALSE]
      /\ disk' = q.disk /\ lost' = (lost \/ q.lost)
  BY <1>1, <1>2 DEF End, Done, Outcome
<1>6. fp' = g /\ disk' = q.disk /\ lost' = (lost \/ q.lost)
  BY <1>4, <1>5
<1>7. /\ g \in FileRecord /\ g.buf = q.fp.buf /\ g.bufread = q.fp.bufread
      /\ g.reading = q.fp.reading /\ g.eof = FALSE
  BY <1>3, <1>4 DEF FileRecord
<1>8. GoodFile(g)
  BY <1>3, <1>7 DEF GoodFile
<1> QED
  BY <1>2, <1>3, <1>6, <1>7, <1>8 DEF InTune, Uses, StreamInv

LEMMA StreamStart ==
  ASSUME StdioAssumption, StdioInit
  PROVE  StreamInv
<1>1. program \in Programs
  BY DEF StdioInit
<1>2. PICK d \in program.files, h \in Bufferings, z \in BufSizes :
        /\ disk = [data |-> d, at |-> 0]
        /\ fp = [buf |-> [i \in 1 .. z |-> Junk], bufpos |-> 0, bufread |-> 0,
                 buffering |-> h, reading |-> FALSE,
                 writing |-> FALSE, eof |-> FALSE, err |-> FALSE, ungot |-> FALSE]
  BY DEF StdioInit
<1>3. d \in Seq(Octets)
  <2>1. d \in Seq({d[i] : i \in DOMAIN d})
    BY <1>1, <1>2 DEF StdioAssumption
  <2>2. \A i \in DOMAIN d : d[i] \in Octets
    <3> DEFINE Bytes(e) == {e[i] : i \in DOMAIN e}
               BytesOf(u) == UNION {Bytes(e) : e \in u.files}
    <3>1. Octets = PutBytes \cup UngetBytes \cup {Junk} \cup UNION {BytesOf(u) : u \in Programs}
      BY Zenon DEF Octets
    <3>2. \A i \in DOMAIN d : d[i] \in Bytes(d)
      OBVIOUS
    <3> HIDE DEF Bytes
    <3>3. \A x \in Bytes(d) : x \in BytesOf(program)
      OBVIOUS
    <3> HIDE DEF BytesOf
    <3>4. \A x \in BytesOf(program) : x \in Octets
      BY <1>1, <3>1
    <3> QED
      BY <3>2, <3>3, <3>4
  <2> QED
    BY <2>1, <2>2
<1>4. GoodDisk(disk)
  BY <1>2, <1>3 DEF GoodDisk
<1>5. z \in 1 .. Word - 1 /\ z \in Nat
  <2>1. z \in 1 .. Word - 1
    BY DEF StdioAssumption
  <2>2. z \in Nat
    BY <2>1
  <2> QED
    BY <2>1, <2>2
<1>6. PICK b : b = [i \in 1 .. z |-> Junk]
  OBVIOUS
<1>7. b \in Seq(Octets) /\ Len(b) = z
  BY <1>5, <1>6 DEF Octets
<1>8. fp = [buf |-> b, bufpos |-> 0, bufread |-> 0,
                 buffering |-> h, reading |-> FALSE,
                 writing |-> FALSE, eof |-> FALSE, err |-> FALSE, ungot |-> FALSE]
  BY <1>2, <1>6
<1>9. fp \in FileRecord /\ fp.buf = b /\ fp.bufread = 0 /\ fp.eof = FALSE /\ fp.reading = FALSE
  BY <1>2, <1>7, <1>8 DEF FileRecord
<1>10. GoodFile(fp)
  BY <1>5, <1>7, <1>9 DEF GoodFile
<1>11. lost = FALSE
  BY DEF StdioInit
<1> QED
  BY <1>1, <1>4, <1>9, <1>10, <1>11 DEF StreamInv, InTune

LEMMA StreamStep ==
  ASSUME StdioAssumption, StreamInv, [StdioNext]_stdioVars
  PROVE  StreamInv'
<1>1. /\ program \in Programs /\ program.fails \in BOOLEAN
      /\ program.counts \subseteq Nat /\ program.room \in Nat
  BY DEF StreamInv, StdioAssumption
<1>2. SUFFICES program' = program /\ lost' \in BOOLEAN /\ InTune(fp', disk', lost')
  BY <1>1, Zenon DEF StreamInv, InTune, GoodFile, GoodDisk, AtEnd, Separate
<1>3. CASE StdioNext
  <2>1. program' = program
    BY <1>3 DEF StdioNext
  <2>2. CASE Uses("fgetc") /\ fgetc
    BY <1>1, <2>1, <2>2, FgetcIs
  <2>3. ASSUME NEW b \in UngetBytes, ungetc(b)
        PROVE  lost' \in BOOLEAN /\ InTune(fp', disk', lost')
    BY <1>1, <2>3, UngetcIs
  <2>4. ASSUME NEW b \in PutBytes, fputc(b)
        PROVE  lost' \in BOOLEAN /\ InTune(fp', disk', lost')
    BY <1>1, <2>4, FputcIs
  <2>5. ASSUME Uses("fread"), NEW n \in program.counts, fread(n)
        PROVE  lost' \in BOOLEAN /\ InTune(fp', disk', lost')
    BY <1>1, <2>5, FreadIs
  <2>6. ASSUME NEW b \in PutBytes, NEW n \in program.counts, fwrite(b, n)
        PROVE  lost' \in BOOLEAN /\ InTune(fp', disk', lost')
    BY <1>1, <2>6, FwriteIs
  <2>7. CASE fflush \/ ftell
    BY <1>1, <2>1, <2>7, FflushIs
  <2>8. ASSUME Uses("fseek"), NEW off \in -2 .. program.room,
               NEW ref \in {"set", "cur", "end"}, fseek(off, ref)
        PROVE  lost' \in BOOLEAN /\ InTune(fp', disk', lost')
    <3>1. off \in Int
      BY <1>1
    <3> QED
      BY <1>1, <2>8, <3>1, FseekIs
  <2>9. CASE clearerr
    BY <2>1, <2>9, ClearerrIs
  <2>10. CASE Uses("rewind") /\ rewind
    BY <1>1, <2>1, <2>10, RewindIs
  <2>11. ASSUME NEW h \in Bufferings, NEW z \in BufSizes, setvbuf(h, z)
         PROVE  lost' \in BOOLEAN /\ InTune(fp', disk', lost')
    BY <1>1, <2>11, SetvbufIs
  <2> QED
    BY <1>3, <2>1, <2>2, <2>3, <2>4, <2>5, <2>6, <2>7, <2>8, <2>9, <2>10, <2>11 DEF StdioNext
<1>4. CASE UNCHANGED stdioVars
  <2>1. program' = program /\ fp' = fp /\ disk' = disk /\ lost' = lost
    BY <1>4 DEF stdioVars
  <2> QED
    BY <2>1, Zenon DEF StreamInv
<1> QED
  BY <1>3, <1>4

LEMMA StreamInvariant == ASSUME StdioAssumption PROVE StdioSpec => []StreamInv
<1>1. StdioInit => StreamInv
  BY StreamStart
<1>2. StreamInv /\ [StdioNext]_stdioVars => StreamInv'
  BY StreamStep
<1> QED
  BY <1>1, <1>2, PTL DEF StdioSpec

\* LossIsFlagged of Stdio: bytes that were accepted and lost have set the
\* error flag, which every call but clearerr and rewind keeps, whichever of the
\* calls flushed them.  A program that meets failures may not use rewind: it
\* drops the result of its flush and clears the flag (libs/rewind.c).
THEOREM StreamLoss ==
  ASSUME StdioAssumption, \A u \in Programs : u.fails => "rewind" \notin u.calls
  PROVE  StdioSpec => []LossIsFlagged
<1>1. StreamInv => LossIsFlagged
  BY DEF StreamInv, InTune, LossIsFlagged
<1> QED
  BY <1>1, StreamInvariant, PTL

\* EofAtEnd of Stdio: the end-of-file flag stands only when the user's position
\* is at the end, whatever mixture of calls put it there.  A program may not
\* mix fgetc, fread and fseek: fread leaves bytes that fgetc read in the buffer
\* and fseek goes back among them, with the flag set (libs/fread.c, libs/rewind.c).
THEOREM StreamEnd ==
  ASSUME StdioAssumption,
         \A u \in Programs : u.fails \/ ~ {"fgetc", "fread", "fseek"} \subseteq u.calls
  PROVE  StdioSpec => []EofAtEnd
<1>1. ASSUME StreamInv, fp.eof, ~ program.fails
      PROVE  fp.ungot \/ Position >= Len(Content)
  <2>1. /\ fp \in FileRecord /\ disk \in [data : Seq(Octets), at : Nat]
        /\ ~ fp.writing /\ (~ fp.ungot => AtEnd(fp, disk))
    BY <1>1 DEF StreamInv, InTune, GoodFile, GoodDisk, Separate
  <2>2. Position = disk.at - (fp.bufread - fp.bufpos) /\ Content = disk.data
    BY <2>1 DEF Position, Content
  <2>3. fp.bufread \in Nat /\ fp.bufpos \in Nat /\ disk.at \in Nat /\ Len(disk.data) \in Nat
    BY <2>1 DEF FileRecord
  <2> QED
    BY <2>1, <2>2, <2>3 DEF AtEnd
<1>2. StreamInv => EofAtEnd
  BY <1>1 DEF EofAtEnd
<1> QED
  BY <1>2, StreamInvariant, PTL

=============================================================================
