----------------------------- MODULE Dhrystone -----------------------------
(***************************************************************************)
(* The Dhrystone benchmark of src/smp_main-dhrystone.c: passes of the loop *)
(* over the procedures of the benchmark, ten times as many turns each, till*)
(* one takes long enough; then the final values and the speed.             *)
(*                                                                         *)
(* Letters are numbers, 'A' = 1.  Of a string the model keeps its name, the*)
(* two characters Func_2 looks at and how it compares.  The cycle counter  *)
(* is a word of 2 * HALF values, read as a signed one.  NUMBER_OF_RUNS and *)
(* Too_Small_Time come from dhrystone.h, which the repository has not.     *)
(***************************************************************************)
EXTENDS Integers

CONSTANTS NUMBER_OF_RUNS,  \* turns of the first pass
          Too_Small_Time,  \* cycles a pass must take
          HALF,            \* half the values of a word
          Elapsed,         \* the cycles a pass may take
          Junk,            \* what uninitialised memory may hold
          MaxTurns         \* bound: turns of the longest pass

ASSUME RunsAssumption == NUMBER_OF_RUNS \in Nat \ {0} /\ MaxTurns \in Nat
ASSUME TimeAssumption == /\ Too_Small_Time \in Nat \ {0} /\ HALF \in Nat \ {0}
                         /\ Elapsed \subseteq Nat
ASSUME JunkAssumption == Junk # {} /\ Junk \subseteq Int

Ident_1 == 0
Ident_2 == 1
Ident_3 == 2
Ident_4 == 3
Ident_5 == 4
Enumeration == 0..4
Index == 0..49

(* The two records on the stack of main; nothing ever assigns the pointers *)
(* again.                                                                  *)
Ptr_Glob == "glob"
Next_Ptr_Glob == "next"
Pointer == {Ptr_Glob, Next_Ptr_Glob}

(* The strings "DHRYSTONE PROGRAM, SOME STRING", "..., 1'ST STRING", ...   *)
Strings == {"1'ST", "2'ND", "3'RD", "SOME"}
CharAt(s, k) == IF k = 2 THEN 18 ELSE 25     \* 'R' and 'Y' of DHRYSTONE
Order(s) == CASE s = "1'ST" -> 1 [] s = "2'ND" -> 2 [] s = "3'RD" -> 3 [] OTHER -> 4
strcmp(s, t) == Order(s) - Order(t)

VARIABLES
  pc,                   \* where main is
  heap,                 \* the two records
  Int_Glob, Bool_Glob, Ch_1_Glob, Ch_2_Glob, Arr_1_Glob, Arr_2_Glob,
  Int_1_Loc, Int_2_Loc, Int_3_Loc, Enum_Loc, Str_2_Loc, Ch_Index,
  Run_Index, Number_Of_Runs,
  mcycle,               \* the cycle counter when a pass starts or has stopped
  t0, User_Time,        \* the counter main read at the start, the measured time
  elapsed,              \* the time the last pass took
  turns                 \* the turns of the loop so far, of all passes

globals == <<heap, Int_Glob, Bool_Glob, Ch_1_Glob, Ch_2_Glob, Arr_1_Glob, Arr_2_Glob>>
locals  == <<Int_1_Loc, Int_2_Loc, Int_3_Loc, Enum_Loc, Str_2_Loc, Ch_Index>>
counts  == <<Run_Index, Number_Of_Runs, turns>>
times   == <<mcycle, t0, User_Time, elapsed>>
dhryVars    == <<pc, globals, locals, counts, times>>

----------------------------------------------------------------------------
(* The procedures that return something or write through a pointer: what   *)
(* they return or write.                                                   *)

Proc_7_sum(a, b) == a + b      \* mutant: 2 is not added
Proc_7(a, b) == b + (a + 2)

\* The records after Proc_3(&r->Ptr_Comp).
Proc_3(h, r) ==
  LET linked == [h EXCEPT ![r].Ptr_Comp = h[Ptr_Glob].Ptr_Comp]
  IN  [linked EXCEPT ![Ptr_Glob].Int_Comp = Proc_7(10, Int_Glob)]

Func_3(e) == e = Ident_3

\* What Proc_6(e, &x) leaves in x.
Proc_6(e) ==
  CASE e = Ident_1 -> Ident_1
    [] e = Ident_2 -> IF Int_Glob > 100 THEN Ident_1 ELSE Ident_4
    [] e = Ident_3 -> Ident_2
    [] e = Ident_4 -> IF Func_3(e) THEN e ELSE Ident_4
    [] e = Ident_5 -> Ident_3

Func_1(c1, c2) == IF c1 # c2 THEN Ident_1 ELSE Ident_2
Ch_1_Glob_after_Func_1(c1, c2) == IF c1 # c2 THEN Ch_1_Glob ELSE c1

\* The loop of Func_2 ends: the two characters differ.
Func_2_ends(s, t) == Func_1(CharAt(s, 2), CharAt(t, 3)) = Ident_1
Func_2(s, t) == strcmp(s, t) > 0
Int_Glob_after_Func_2(s, t) == IF Func_2(s, t) THEN 3 + 7 ELSE Int_Glob

\* The arrays after Proc_8(a1, a2, i, j).
Proc_8_first(a1, i, j) ==
  LET loc == i + 5
  IN  [a1 EXCEPT ![loc] = j, ![loc + 1] = j, ![loc + 30] = loc]
Proc_8_second_set(a2, i, j) ==     \* mutant: the element is set, not increased
  [a2 EXCEPT ![<<i + 5, i + 4>>] = 11]
Proc_8_second(a2, i, j) ==
  LET loc == i + 5
      row == [c \in Index \X Index |->
                IF c[1] = loc /\ c[2] \in {loc, loc + 1} THEN loc ELSE a2[c]]
  IN  [row EXCEPT ![<<loc, loc - 1>>] = @ + 1, ![<<loc + 20, loc>>] = j]

\* The records after Proc_1(p).
Proc_1(h, p) ==
  LET n == h[p].Ptr_Comp
      copied == [h EXCEPT ![n] = h[Ptr_Glob]]
      five == [copied EXCEPT ![p].Int_Comp = 5]
      filled == [five EXCEPT ![n].Int_Comp = five[p].Int_Comp,
                             ![n].Ptr_Comp = five[p].Ptr_Comp]
      linked == Proc_3(filled, n)
      six == [linked EXCEPT ![n].Int_Comp = 6,
                            ![n].Enum_Comp = Proc_6(linked[p].Enum_Comp),
                            ![n].Ptr_Comp = linked[Ptr_Glob].Ptr_Comp]
  IN  IF linked[n].Discr = Ident_1
      THEN [six EXCEPT ![n].Int_Comp = Proc_7(six[n].Int_Comp, 10)]
      ELSE [linked EXCEPT ![p] = linked[linked[p].Ptr_Comp]]

\* The loop of Proc_2 ends, and what Proc_2(&x) leaves in x.
Proc_2_ends == Ch_1_Glob = 1
Proc_2(x) == (x + 10 - 1) - Int_Glob

----------------------------------------------------------------------------
(* main.                                                                   *)

Goes(a, b) == pc = a /\ pc' = b

\* The records, the element of the array and the counters are initialised.
Begin ==
  /\ Goes("start", "trying")
  /\ heap' = [heap EXCEPT ![Ptr_Glob] = [Ptr_Comp |-> Next_Ptr_Glob, Discr |-> Ident_1,
                             Enum_Comp |-> Ident_3, Int_Comp |-> 40, Str_Comp |-> "SOME"]]
  /\ Arr_2_Glob' = [Arr_2_Glob EXCEPT ![<<8, 7>>] = 10]
  /\ Number_Of_Runs' = NUMBER_OF_RUNS
  /\ UNCHANGED <<Int_Glob, Bool_Glob, Ch_1_Glob, Ch_2_Glob, Arr_1_Glob, locals,
                 Run_Index, turns, times>>

\* A pass starts, at any value of the counter.
StartPass_once ==      \* mutant: the timer is started before the loop
  /\ Goes("trying", "for")
  /\ mcycle' \in 0 .. 2 * HALF - 1
  /\ t0' = IF turns = 0 THEN mcycle' ELSE t0
  /\ Run_Index' = 1
  /\ UNCHANGED <<globals, locals, Number_Of_Runs, turns, User_Time, elapsed>>
StartPass ==
  /\ Goes("trying", "for")
  /\ mcycle' \in 0 .. 2 * HALF - 1
  /\ t0' = mcycle'
  /\ Run_Index' = 1
  /\ UNCHANGED <<globals, locals, Number_Of_Runs, turns, User_Time, elapsed>>

\* The head of a turn of the loop.
Proc_5 ==
  /\ Goes("for", "Proc_4")
  /\ Run_Index <= Number_Of_Runs
  /\ Ch_1_Glob' = 1
  /\ Bool_Glob' = FALSE
  /\ UNCHANGED <<heap, Int_Glob, Ch_2_Glob, Arr_1_Glob, Arr_2_Glob, locals, counts, times>>

Proc_4 ==
  /\ Goes("Proc_4", "Func_2")
  /\ Bool_Glob' = (Ch_1_Glob = 1 \/ Bool_Glob)
  /\ Ch_2_Glob' = 2
  /\ UNCHANGED <<heap, Int_Glob, Ch_1_Glob, Arr_1_Glob, Arr_2_Glob, locals, counts, times>>

\* The assignments before Func_2, and the call; a Func_2 that does not end
\* stops the program.
CallFunc_2 ==
  /\ Goes("Func_2", "while")
  /\ Func_2_ends("1'ST", "2'ND")
  /\ Int_1_Loc' = 2 /\ Int_2_Loc' = 3
  /\ Str_2_Loc' = "2'ND" /\ Enum_Loc' = Ident_2
  /\ Bool_Glob' = ~Func_2("1'ST", "2'ND")
  /\ Int_Glob' = Int_Glob_after_Func_2("1'ST", "2'ND")
  /\ UNCHANGED <<heap, Ch_1_Glob, Ch_2_Glob, Arr_1_Glob, Arr_2_Glob,
                 Int_3_Loc, Ch_Index, counts, times>>

\* A turn of the while loop: Proc_7 writes over what was put in Int_3_Loc.
CallProc_7 ==
  /\ Goes("while", "while")
  /\ Int_1_Loc < Int_2_Loc
  /\ Int_3_Loc' = Proc_7(Int_1_Loc, Int_2_Loc)
  /\ Int_1_Loc' = Int_1_Loc + 1
  /\ UNCHANGED <<globals, Int_2_Loc, Enum_Loc, Str_2_Loc, Ch_Index, counts, times>>

\* The end of the while loop, and Proc_8.
Proc_8 ==
  /\ Goes("while", "Proc_1")
  /\ Int_1_Loc >= Int_2_Loc
  /\ Arr_1_Glob' = Proc_8_first(Arr_1_Glob, Int_1_Loc, Int_3_Loc)
  /\ Arr_2_Glob' = Proc_8_second(Arr_2_Glob, Int_1_Loc, Int_3_Loc)
  /\ Int_Glob' = 5
  /\ turns' = turns + 1
  /\ UNCHANGED <<heap, Bool_Glob, Ch_1_Glob, Ch_2_Glob, locals, Run_Index,
                 Number_Of_Runs, times>>

CallProc_1 ==
  /\ Goes("Proc_1", "letters")
  /\ heap' = Proc_1(heap, Ptr_Glob)
  /\ Ch_Index' = 1
  /\ UNCHANGED <<Int_Glob, Bool_Glob, Ch_1_Glob, Ch_2_Glob, Arr_1_Glob, Arr_2_Glob,
                 Int_1_Loc, Int_2_Loc, Int_3_Loc, Enum_Loc, Str_2_Loc, counts, times>>

\* A turn of the loop over the letters: 'C' is the third.
Letter ==
  /\ Goes("letters", "letters")
  /\ Ch_Index <= Ch_2_Glob
  /\ Ch_Index' = Ch_Index + 1
  /\ Ch_1_Glob' = Ch_1_Glob_after_Func_1(Ch_Index, 3)
  /\ IF Enum_Loc = Func_1(Ch_Index, 3)
     THEN /\ Enum_Loc' = Proc_6(Ident_1)
          /\ Str_2_Loc' = "3'RD"
          /\ Int_2_Loc' = Run_Index /\ Int_Glob' = Run_Index
     ELSE UNCHANGED <<Enum_Loc, Str_2_Loc, Int_2_Loc, Int_Glob>>
  /\ UNCHANGED <<heap, Bool_Glob, Ch_2_Glob, Arr_1_Glob, Arr_2_Glob,
                 Int_1_Loc, Int_3_Loc, counts, times>>

\* The end of that loop, and the arithmetic before Proc_2.
Arithmetic ==
  /\ Goes("letters", "Proc_2")
  /\ Ch_Index > Ch_2_Glob
  /\ Int_3_Loc > 0
  /\ LET product == Int_2_Loc * Int_1_Loc
         quotient == product \div Int_3_Loc
     IN  /\ Int_1_Loc' = quotient
         /\ Int_2_Loc' = 7 * (product - Int_3_Loc) - quotient
  /\ UNCHANGED <<globals, Int_3_Loc, Enum_Loc, Str_2_Loc, Ch_Index, counts, times>>

\* Proc_2 and the end of the turn.
CallProc_2 ==
  /\ Goes("Proc_2", "for")
  /\ Proc_2_ends
  /\ Int_1_Loc' = Proc_2(Int_1_Loc)
  /\ Run_Index' = Run_Index + 1
  /\ UNCHANGED <<globals, Int_2_Loc, Int_3_Loc, Enum_Loc, Str_2_Loc, Ch_Index,
                 Number_Of_Runs, turns, times>>

\* The value of a word as a signed number.
Signed(w) == LET u == w % (2 * HALF) IN IF u < HALF THEN u ELSE u - 2 * HALF

\* The end of a pass: the time is taken, and another pass made if it is short.
StopPass ==
  /\ pc = "for"
  /\ Run_Index > Number_Of_Runs
  /\ \E e \in Elapsed :
       /\ elapsed' = e
       /\ mcycle' = (mcycle + e) % (2 * HALF)
       /\ User_Time' = Signed(mcycle' - t0)
  /\ IF User_Time' < Too_Small_Time
     THEN /\ 10 * Number_Of_Runs <= MaxTurns
          /\ Number_Of_Runs' = 10 * Number_Of_Runs
          /\ pc' = "trying"
     ELSE /\ pc' = "report" /\ UNCHANGED Number_Of_Runs
  /\ UNCHANGED <<globals, locals, Run_Index, turns, t0>>

\* The final values are written, and the speed, whose value is left out: it is
\* divided by the time and by the number of turns.
Report ==
  /\ Goes("report", "returned")
  /\ User_Time # 0 /\ Number_Of_Runs # 0
  /\ UNCHANGED <<globals, locals, counts, times>>

Finished == pc = "returned" /\ UNCHANGED dhryVars

Uninitialised ==
  [Ptr_Comp : Pointer, Discr : Junk, Enum_Comp : Junk, Int_Comp : Junk, Str_Comp : Strings]

DhryInit ==
  /\ pc = "start"
  /\ heap \in [Pointer -> Uninitialised]
  /\ Int_Glob = 0 /\ Bool_Glob = FALSE /\ Ch_1_Glob = 0 /\ Ch_2_Glob = 0
  /\ Arr_1_Glob = [k \in Index |-> 0]
  /\ Arr_2_Glob = [c \in Index \X Index |-> 0]
  /\ Int_1_Loc \in Junk /\ Int_2_Loc \in Junk /\ Int_3_Loc \in Junk
  /\ Enum_Loc \in Junk /\ Str_2_Loc \in Strings /\ Ch_Index = 0
  /\ Run_Index = 0 /\ Number_Of_Runs = 0
  /\ mcycle = 0 /\ t0 = 0 /\ User_Time = 0 /\ elapsed = 0 /\ turns = 0

DhryNext == \/ Begin \/ StartPass \/ Proc_5 \/ Proc_4 \/ CallFunc_2 \/ CallProc_7 \/ Proc_8
            \/ CallProc_1 \/ Letter \/ Arithmetic \/ CallProc_2 \/ StopPass \/ Report \/ Finished

DhrySpec == DhryInit /\ [][DhryNext]_dhryVars

----------------------------------------------------------------------------
(* Properties.                                                             *)

Record == [Ptr_Comp : Pointer, Discr : Int, Enum_Comp : Int, Int_Comp : Int,
           Str_Comp : Strings]

\* The type invariant; no turn is left out.
DhryTypeOK ==
  /\ pc \in {"start", "trying", "for", "Proc_4", "Func_2", "while", "Proc_1", "letters",
             "Proc_2", "report", "returned"}
  /\ heap \in [Pointer -> Record]
  /\ Int_Glob \in Int /\ Bool_Glob \in BOOLEAN /\ Ch_1_Glob \in 0..26 /\ Ch_2_Glob \in 0..26
  /\ Arr_1_Glob \in [Index -> Int] /\ Arr_2_Glob \in [Index \X Index -> Int]
  /\ Int_1_Loc \in Int /\ Int_2_Loc \in Int /\ Int_3_Loc \in Int
  /\ Enum_Loc \in Int /\ Str_2_Loc \in Strings /\ Ch_Index \in 0..27
  /\ Number_Of_Runs \in Nat /\ Run_Index \in 0 .. Number_Of_Runs + 1
  /\ mcycle \in 0 .. 2 * HALF - 1 /\ t0 \in 0 .. 2 * HALF - 1
  /\ User_Time \in -HALF .. HALF - 1
  /\ elapsed \in Nat /\ turns \in Nat

\* The comments in the loop: what the variables hold after Proc_4, after Func_2,
\* after the while loop, after Proc_8, after the letters, before and after Proc_2.
TurnComments ==
  /\ pc = "Func_2" => Ch_1_Glob = 1 /\ Ch_2_Glob = 2 /\ Bool_Glob
  /\ pc = "while" => Bool_Glob /\ (Int_1_Loc = 3 => Int_3_Loc = 7)
  /\ pc \in {"Proc_1", "letters"} =>
       Int_1_Loc = 3 /\ Int_2_Loc = 3 /\ Int_3_Loc = 7 /\ Int_Glob = 5
  /\ pc = "Proc_2" => Int_1_Loc = 1 /\ Int_2_Loc = 13 /\ Int_3_Loc = 7
  /\ pc = "for" /\ Run_Index > 1 => Int_1_Loc = 5

\* "should be": the values main prints at its end, after any number of passes,
\* whatever the records and the locals held before; but for Arr_2_Glob[8][7].
FinalValues ==
  pc = "report" =>
    /\ Int_Glob = 5 /\ Bool_Glob /\ Ch_1_Glob = 1 /\ Ch_2_Glob = 2 /\ Arr_1_Glob[8] = 7
    /\ heap[Ptr_Glob] = [Ptr_Comp |-> Next_Ptr_Glob, Discr |-> 0, Enum_Comp |-> 2,
                         Int_Comp |-> 17, Str_Comp |-> "SOME"]
    /\ heap[Next_Ptr_Glob] = [Ptr_Comp |-> Next_Ptr_Glob, Discr |-> 0, Enum_Comp |-> 1,
                              Int_Comp |-> 18, Str_Comp |-> "SOME"]
    /\ Int_1_Loc = 5 /\ Int_2_Loc = 13 /\ Int_3_Loc = 7 /\ Enum_Loc = 1
    /\ Str_2_Loc = "2'ND"

\* Arr_2_Glob[8][7] counts the turns of all passes: NUMBER_OF_RUNS, ten times as
\* many, and so on to the last pass.
AllTurnsCounted ==
  pc = "report" => /\ Arr_2_Glob[<<8, 7>>] = 10 + turns
                   /\ 9 * turns = 10 * Number_Of_Runs - NUMBER_OF_RUNS

\* The measured time is the time the pass took, wherever the counter began, when
\* the pass took less than half of the counter's range.
MeasuredTrue ==
  pc = "report" /\ elapsed < HALF => User_Time = elapsed

\* "Arr_2_Glob[8][7] should be: Number_Of_Runs + 10" (line 553).  It does not
\* hold after a second pass: no pass sets the array back.
CountAsPrinted ==
  pc = "report" => Arr_2_Glob[<<8, 7>>] = Number_Of_Runs + 10
=============================================================================
