-------------------------- MODULE LogManagerProofs --------------------------
(***************************************************************************)
(* Theorems about LogManager, for any threads, tags, messages, lengths and *)
(* number of months and calls.                                             *)
(***************************************************************************)
EXTENDS LogManager, TLAPS

(***************************************************************************)
(* The inductive invariant                                                 *)
(***************************************************************************)
\* what ResizeBuffer logs; what a call on a stack is
Message == [kind |-> "log", len |-> ResizeLen, bytes |-> 0]
MonthPcs == {"stamp", "compare", "clock", "month", "create", "bom"}
LinePcs  == {"format", "open", "write", "leave"}
Frames ==
  [tag : Tags, msg : Messages \cup {Message}, stamp : Months, now : Months, dir : Dirs,
   at : {"enter"} \cup MonthPcs \cup LinePcs]

Busy(t)   == stack[t] # <<>>
Height(t) == Len(stack[t])

\* a call that another one interrupted is in its loop, and about the same tag
StackOK ==
  /\ stack \in [Threads -> Seq(Frames)]
  /\ \A t \in Threads : \A i \in 1 .. Height(t) - 1 :
       stack[t][i].at = "format" /\ stack[t][i].tag = Top(t).tag

\* the call is in the critical section; the thread is, for some call
Holding(f) == f.at \in LinePcs \/ (f.msg.kind = "hex" /\ f.at \in MonthPcs)
Owns(t)    == Busy(t) /\ (Height(t) > 1 \/ Holding(Top(t)))

LockOK ==
  /\ \A g \in Tags, t \in Threads : owner[g] = t <=> Owns(t) /\ Top(t).tag = g
  /\ \A g \in Tags : owner[g] = None => depth[g] = 0
  /\ \A t \in Threads : Owns(t) =>
       depth[Top(t).tag] = Height(t) - 1 + IF Holding(Top(t)) THEN 1 ELSE 0

\* who has which file open, and that an empty file is about to be marked
Marking(t, n) == IsAt(t, "bom") /\ NewName(Top(t)) = n
Using(t, n)   == Marking(t, n) \/ (IsAt(t, "write") /\ Name(Top(t)) = n)
FileOK ==
  /\ \A n \in Names, t \in Threads : openBy[n] = t <=> Using(t, n)
  /\ \A n \in Names, t \in Threads : Using(t, n) => n \in made
  /\ \A n \in Names : n \in made /\ files[n] = <<>> => \E t \in Threads : Marking(t, n)
  /\ \A n \in Names, t \in Threads : Using(t, n) => Marking(t, n) \/ files[n] # <<>>

\* a line is between its formatting and the file
Pending(t) == Busy(t) /\ Top(t).at \in {"open", "write"}
LinesOK ==
  /\ \A n \in Names : \A i \in DOMAIN files[n] :
       /\ files[n][1] = BOM /\ files[n][i] \notin lost /\ files[n][i] <= logCount
       /\ \A j \in 1 .. i - 1 : files[n][j] < files[n][i]
       /\ \A h \in Tags \ {n[2]} : files[n][i] = text[h] => text[h] = 0
  /\ \A g, h \in Tags : g # h /\ text[g] = text[h] => text[g] = 0
  /\ \A t \in Threads : Pending(t) =>
       /\ text[Top(t).tag] > 0 /\ text[Top(t).tag] \notin lost
       /\ \A n \in Names : n[2] = Top(t).tag =>
            \A i \in DOMAIN files[n] : files[n][i] < text[n[2]]

\* the line in the buffer fits
FitOK ==
  \A t \in Threads : Busy(t) /\ Top(t).at \in {"open", "write", "leave"} =>
    LineLength(Top(t)) < bufLen[Top(t).tag]

\* the file of a tag and month has been made, in some directory, or found no
\* folder; a thread is about to make it; a call has its month behind it
Tried(g, m)     == <<g, m>> \in refused \/ \E d \in Dirs : <<d, g, m>> \in made
Making(t, g, m) == IsAt(t, "create") /\ Top(t).tag = g /\ Top(t).now = m
Cared(g, m)     == Tried(g, m) \/ \E t \in Threads : Making(t, g, m)
PastMonth(f) == f.at \in LinePcs \cup {"create", "bom"} \/ (f.at = "enter" /\ f.msg.kind = "log")

\* in the first year: the file of a tag's _month is cared for, and so is the
\* file of a line, unless its own SetMonth read the clock in a later month
FrameOK(f) ==
  /\ f.stamp <= month /\ f.now <= month /\ (f.at = "month" => f.stamp <= f.now)
  /\ PastMonth(f) => f.now > f.stamp \/ Cared(f.tag, f.stamp)
FramesOK(t) == \A i \in 1 .. Height(t) : FrameOK(stack[t][i])
TagOK(g) == \A m \in Months : tagMonth[g] = m + 1 => Cared(g, m)
MonthOK ==
  month < YearLen => (\A g \in Tags : TagOK(g)) /\ (\A t \in Threads : FramesOK(t))

IInv ==
  /\ TypeOK /\ files \in [Names -> Seq(Nat)] /\ StackOK
  /\ LockOK /\ FileOK /\ LinesOK /\ FitOK /\ MonthOK

LEMMA Constants ==
  /\ None \notin Threads /\ MaxMonth \in Nat /\ YearLen \in Nat \ {0} /\ 0 \in Months
  /\ FirstDir \in Dirs
  /\ HeaderLen \in Nat /\ MaxCalls \in Nat /\ MaxSettings \in Nat /\ FirstBufLen \in Nat \ {0}
  /\ \A m \in Messages \cup {Message} :
       m.kind \in {"log", "hex"} /\ m.len \in Nat /\ m.bytes \in Nat
BY ConstantsAssumption DEF Months, Message

(***************************************************************************)
(* Steps                                                                   *)
(***************************************************************************)
LEMMA StackShape ==
  ASSUME StackOK, NEW t \in Threads
  PROVE  /\ Height(t) \in Nat /\ (Busy(t) <=> Height(t) > 0)
         /\ Busy(t) => Top(t) \in Frames /\ Top(t) = stack[t][Height(t)]
BY DEF StackOK, Busy, Height, Top

\* Only thread t's calls change.
Rest(t) == \A u \in Threads \ {t} : stack'[u] = stack[u]

LEMMA RestSame ==
  ASSUME NEW t \in Threads, Rest(t), NEW u \in Threads \ {t}
  PROVE  /\ Top(u)' = Top(u) /\ Height(u)' = Height(u) /\ (Busy(u)' <=> Busy(u))
         /\ (Owns(u)' <=> Owns(u)) /\ (Pending(u)' <=> Pending(u))
         /\ \A n \in Names : (Using(u, n)' <=> Using(u, n)) /\ (Marking(u, n)' <=> Marking(u, n))
         /\ \A g \in Tags, m \in Months : Making(u, g, m)' <=> Making(u, g, m)
BY DEF Rest, Top, Height, Busy, Owns, Pending, Using, Marking, Making, IsAt, Name, NewName

\* The innermost call goes on.
Moves(t, f) ==
  /\ Busy(t) /\ Busy(t)' /\ Height(t)' = Height(t) /\ Top(t)' = f /\ f \in Frames
  /\ \A i \in 1 .. Height(t) - 1 : stack'[t][i] = stack[t][i]
  /\ Rest(t) /\ StackOK'

LEMMA Becomes ==
  ASSUME StackOK, NEW t \in Threads, Busy(t), NEW f \in Frames, f.tag = Top(t).tag,
         Become(t, f)
  PROVE  Moves(t, f)
<1> DEFINE s == stack[t]
           b == Below(t)
<1>0. s \in Seq(Frames) /\ Len(s) \in Nat \ {0}
  BY DEF StackOK, Busy
<1>1. b \in Seq(Frames) /\ Len(b) = Len(s) - 1 /\ \A i \in 1 .. Len(s) - 1 : b[i] = s[i]
  BY <1>0 DEF Below
<1>2. stack' = [stack EXCEPT ![t] = Append(b, f)]
  BY DEF Become
<1>3. stack'[t] = Append(b, f) /\ Rest(t)
  BY <1>2 DEF StackOK, Rest
<1>4. /\ Append(b, f) \in Seq(Frames) /\ Len(Append(b, f)) = Len(s) /\ Append(b, f)[Len(s)] = f
      /\ \A i \in 1 .. Len(s) - 1 : Append(b, f)[i] = s[i]
  <2> HIDE DEF b, s
  <2> QED BY <1>0, <1>1
<1>5. Busy(t)' /\ Height(t)' = Height(t) /\ Top(t)' = f
  BY <1>0, <1>3, <1>4 DEF Busy, Height, Top
<1>6. stack' \in [Threads -> Seq(Frames)]
  BY <1>2, <1>4 DEF StackOK
<1>7. StackOK'
  <2> SUFFICES ASSUME NEW u \in Threads, NEW i \in 1 .. Height(u)' - 1
               PROVE  stack'[u][i].at = "format" /\ stack'[u][i].tag = Top(u)'.tag
    BY <1>6 DEF StackOK
  <2>1. CASE u = t
    BY <1>3, <1>4, <1>5, <2>1, ZenonT(60) DEF StackOK, Height
  <2>2. CASE u # t
    BY <1>3, <2>2, RestSame DEF StackOK, Rest
  <2> QED BY <2>1, <2>2
<1> QED BY <1>3, <1>4, <1>5, <1>7 DEF Moves, Height

\* A call is made, by the program or by ResizeBuffer.
LEMMA Calls ==
  ASSUME StackOK, NEW t \in Threads, ~Busy(t), NEW f \in Frames,
         stack' = [stack EXCEPT ![t] = <<f>>]
  PROVE  StackOK' /\ Busy(t)' /\ Height(t)' = 1 /\ Top(t)' = f /\ Rest(t)
<1>1. stack'[t] = <<f>> /\ Rest(t) /\ stack' \in [Threads -> Seq(Frames)]
  BY DEF StackOK, Rest
<1>2. Busy(t)' /\ Height(t)' = 1 /\ Top(t)' = f
  BY <1>1 DEF Busy, Height, Top
<1>3. StackOK'
  <2> SUFFICES ASSUME NEW u \in Threads, NEW i \in 1 .. Height(u)' - 1
               PROVE  stack'[u][i].at = "format" /\ stack'[u][i].tag = Top(u)'.tag
    BY <1>1 DEF StackOK
  <2>1. u # t
    BY <1>2
  <2> QED BY <1>1, <2>1, RestSame DEF StackOK, Rest
<1> QED BY <1>1, <1>2, <1>3

LEMMA Interrupts ==
  ASSUME StackOK, NEW t \in Threads, Busy(t), NEW e \in Frames, NEW f \in Frames,
         e.at = "format", e.tag = Top(t).tag, f.tag = Top(t).tag,
         stack' = [stack EXCEPT ![t] = Below(t) \o <<e, f>>]
  PROVE  /\ StackOK' /\ Busy(t)' /\ Height(t)' = Height(t) + 1 /\ Top(t)' = f /\ Rest(t)
         /\ stack'[t][Height(t)] = e
         /\ \A i \in 1 .. Height(t) - 1 : stack'[t][i] = stack[t][i]
<1> DEFINE s == stack[t]
           b == Below(t)
           new == b \o <<e, f>>
<1>0. s \in Seq(Frames) /\ Len(s) \in Nat \ {0}
  BY DEF StackOK, Busy
<1>1. b \in Seq(Frames) /\ Len(b) = Len(s) - 1 /\ \A i \in 1 .. Len(s) - 1 : b[i] = s[i]
  BY <1>0 DEF Below
<1>2. /\ new \in Seq(Frames) /\ Len(new) = Len(s) + 1
      /\ new[Len(s)] = e /\ new[Len(s) + 1] = f
      /\ \A i \in 1 .. Len(s) - 1 : new[i] = s[i]
  <2> HIDE DEF b, s
  <2> QED BY <1>0, <1>1
<1>3. stack'[t] = new /\ Rest(t) /\ stack' \in [Threads -> Seq(Frames)]
  BY <1>2 DEF StackOK, Rest
<1> HIDE DEF new
<1>4. Busy(t)' /\ Height(t)' = Height(t) + 1 /\ Top(t)' = f
  BY <1>0, <1>2, <1>3 DEF Busy, Height, Top
<1>5. StackOK'
  <2> SUFFICES ASSUME NEW u \in Threads, NEW i \in 1 .. Height(u)' - 1
               PROVE  stack'[u][i].at = "format" /\ stack'[u][i].tag = Top(u)'.tag
    BY <1>3 DEF StackOK
  <2>1. CASE u = t /\ i = Len(s)
    BY <1>2, <1>3, <1>4, <2>1
  <2>2. CASE u = t /\ i # Len(s)
    <3>1. i \in 1 .. Height(t) - 1
      BY <1>0, <1>4, <2>2 DEF Height
    <3>2. stack[t][i].at = "format" /\ stack[t][i].tag = Top(t).tag
      BY <3>1 DEF StackOK
    <3>3. stack'[u][i] = stack[t][i]
      BY <1>2, <1>3, <2>2, <3>1 DEF Height
    <3> QED BY <1>4, <2>2, <3>2, <3>3
  <2>3. CASE u # t
    <3>1. stack'[u] = stack[u] /\ Top(u)' = Top(u) /\ Height(u)' = Height(u)
      BY <1>3, <2>3, RestSame DEF Rest
    <3> QED BY <3>1 DEF StackOK
  <2> QED BY <2>1, <2>2, <2>3
<1> QED BY <1>2, <1>3, <1>4, <1>5 DEF Height

\* The innermost call returns; one below it is in its loop.
LEMMA Returns ==
  ASSUME StackOK, NEW t \in Threads, Busy(t), Return(t)
  PROVE  /\ StackOK' /\ Height(t)' = Height(t) - 1 /\ Rest(t)
         /\ Height(t) = 1 => ~ Busy(t)'
         /\ Height(t) > 1 =>
              Busy(t)' /\ Top(t)' \in Frames /\ Top(t)'.at = "format" /\ Top(t)'.tag = Top(t).tag
         /\ \A i \in 1 .. Height(t) - 1 : stack'[t][i] = stack[t][i]
<1> DEFINE s == stack[t]
           b == Below(t)
<1>0. s \in Seq(Frames) /\ Len(s) \in Nat \ {0}
  BY DEF StackOK, Busy
<1>1. b \in Seq(Frames) /\ Len(b) = Len(s) - 1 /\ \A i \in 1 .. Len(s) - 1 : b[i] = s[i]
  BY <1>0 DEF Below
<1>2. stack'[t] = b /\ Rest(t) /\ stack' \in [Threads -> Seq(Frames)]
  BY <1>1 DEF StackOK, Rest, Return
<1> HIDE DEF b
<1>3. Height(t)' = Height(t) - 1 /\ \A i \in 1 .. Height(t) - 1 : stack'[t][i] = stack[t][i]
  BY <1>1, <1>2 DEF Height
<1>4. Height(t) = 1 => ~ Busy(t)'
  BY <1>0, <1>1, <1>2 DEF Height, Busy
<1>5. ASSUME Height(t) > 1
      PROVE  Busy(t)' /\ Top(t)' \in Frames /\ Top(t)'.at = "format" /\ Top(t)'.tag = Top(t).tag
  <2>1. Len(s) - 1 \in 1 .. Len(s) - 1 /\ Len(s) > 1
    BY <1>0, <1>5 DEF Height
  <2>2. Busy(t)' /\ Top(t)' = s[Len(s) - 1]
    BY <1>1, <1>2, <2>1 DEF Busy, Top
  <2>3. s[Len(s) - 1] \in Frames
    BY <1>0, <2>1
  <2> QED BY <2>1, <2>2, <2>3 DEF StackOK, Height
<1>6. StackOK'
  <2> SUFFICES ASSUME NEW u \in Threads, NEW i \in 1 .. Height(u)' - 1
               PROVE  stack'[u][i].at = "format" /\ stack'[u][i].tag = Top(u)'.tag
    BY <1>2 DEF StackOK
  <2>1. CASE u = t
    <3>1. i \in 1 .. Height(t) - 1 /\ Height(t) > 1
      BY <1>0, <1>3, <2>1 DEF Height
    <3> QED BY <1>3, <1>5, <2>1, <3>1 DEF StackOK
  <2>2. CASE u # t
    BY <1>2, <2>2, RestSame, ZenonT(60) DEF StackOK, Rest
  <2> QED BY <2>1, <2>2
<1> QED BY <1>2, <1>3, <1>4, <1>5, <1>6

\* What each step of a call makes of it.
To(t, l) == [Top(t) EXCEPT !.at = l]
OpenTo(t, l) == [Top(t) EXCEPT !.dir = dir, !.at = l]
FileHere(t, m) == <<dir, Top(t).tag, m>>

LEMMA GoesTo ==
  ASSUME StackOK, NEW t \in Threads, Busy(t),
         NEW l \in {"enter"} \cup MonthPcs \cup LinePcs, Goto(t, l)
  PROVE  Moves(t, To(t, l))
<1>1. To(t, l) \in Frames /\ To(t, l).tag = Top(t).tag
  BY StackShape DEF To, Frames
<1> QED BY <1>1, Becomes DEF Goto, To

LEMMA MonthMoves ==
  ASSUME StackOK, month \in Months, dir \in Dirs, NEW t \in Threads
  PROVE  /\ Stamp(t) => Moves(t, [Top(t) EXCEPT !.stamp = month, !.at = "compare"])
         /\ Compare(t) => Moves(t, To(t, IF Wmonth(Top(t).stamp) # tagMonth[Top(t).tag]
                                           THEN "clock" ELSE AfterMonth(Top(t))))
         /\ ReadClock(t) => Moves(t, [Top(t) EXCEPT !.now = month, !.at = "month"])
         /\ SetMonth(t) => Moves(t, To(t, "create"))
         /\ Create(t) =>
              Moves(t, IF <<dir, Top(t).now>> \in folders /\ openBy[FileHere(t, Top(t).now)] = None
                         THEN OpenTo(t, "bom") ELSE To(t, AfterMonth(Top(t))))
         /\ WriteBOM(t) => Moves(t, To(t, AfterMonth(Top(t))))
<1>0. ASSUME Busy(t)
      PROVE  /\ [Top(t) EXCEPT !.stamp = month, !.at = "compare"] \in Frames
             /\ [Top(t) EXCEPT !.now = month, !.at = "month"] \in Frames
             /\ [Top(t) EXCEPT !.stamp = month, !.at = "compare"].tag = Top(t).tag
             /\ [Top(t) EXCEPT !.now = month, !.at = "month"].tag = Top(t).tag
             /\ OpenTo(t, "bom") \in Frames /\ OpenTo(t, "bom").tag = Top(t).tag
             /\ OpenTo(t, "bom").now = Top(t).now
  BY <1>0, StackShape DEF Frames, MonthPcs, OpenTo
<1>1. AfterMonth(Top(t)) \in {"enter"} \cup MonthPcs \cup LinePcs
  BY DEF AfterMonth, LinePcs
<1>2. {"clock", "create", "bom"} \subseteq {"enter"} \cup MonthPcs \cup LinePcs
  BY DEF MonthPcs
<1>3. Stamp(t) => Moves(t, [Top(t) EXCEPT !.stamp = month, !.at = "compare"])
  BY <1>0, Becomes DEF Stamp, IsAt, Busy
<1>4. ReadClock(t) => Moves(t, [Top(t) EXCEPT !.now = month, !.at = "month"])
  BY <1>0, Becomes DEF ReadClock, IsAt, Busy
<1>5. ASSUME Compare(t)
      PROVE  Moves(t, To(t, IF Wmonth(Top(t).stamp) # tagMonth[Top(t).tag]
                              THEN "clock" ELSE AfterMonth(Top(t))))
  BY <1>1, <1>2, <1>5, GoesTo DEF Compare, IsAt, Busy
<1>6. SetMonth(t) => Moves(t, To(t, "create"))
  BY <1>2, GoesTo DEF SetMonth, IsAt, Busy
<1>7. ASSUME Create(t)
      PROVE  Moves(t, IF <<dir, Top(t).now>> \in folders /\ openBy[FileHere(t, Top(t).now)] = None
                        THEN OpenTo(t, "bom") ELSE To(t, AfterMonth(Top(t))))
  <2>1. Busy(t)
    BY <1>7 DEF Create, IsAt, Busy
  <2>2. PICK f \in Frames : f = OpenTo(t, "bom") /\ f.tag = Top(t).tag /\ f.now = Top(t).now
    BY <1>0, <2>1
  <2>3. /\ f = [Top(t) EXCEPT !.dir = dir, !.at = "bom"] /\ NewName(f) = FileHere(t, Top(t).now)
    <3>1. f.dir = dir
      BY <2>1, <2>2, StackShape DEF OpenTo, Frames
    <3> QED BY <2>2, <3>1 DEF OpenTo, NewName, FileHere
  <2>4. IF <<dir, Top(t).now>> \in folders /\ openBy[FileHere(t, Top(t).now)] = None
          THEN Become(t, f) ELSE Goto(t, AfterMonth(Top(t)))
    BY <1>7, <2>2, <2>3 DEF Create
  <2>5. CASE <<dir, Top(t).now>> \in folders /\ openBy[FileHere(t, Top(t).now)] = None
    BY <2>1, <2>2, <2>4, <2>5, Becomes
  <2>6. CASE ~ (<<dir, Top(t).now>> \in folders /\ openBy[FileHere(t, Top(t).now)] = None)
    BY <1>1, <2>1, <2>4, <2>6, GoesTo
  <2> QED BY <2>5, <2>6
<1>8. WriteBOM(t) => Moves(t, To(t, AfterMonth(Top(t))))
  BY <1>1, GoesTo DEF WriteBOM, IsAt, Busy
<1> QED BY <1>3, <1>4, <1>5, <1>6, <1>7, <1>8

LEMMA LineMoves ==
  ASSUME StackOK, dir \in Dirs, NEW t \in Threads
  PROVE  /\ Enter(t) => Moves(t, To(t, AfterEnter(Top(t))))
         /\ Format(t) /\ Fits(Top(t)) => Moves(t, To(t, "open"))
         /\ Open(t) =>
              Moves(t, IF /\ FileHere(t, Top(t).stamp) \in made
                          /\ openBy[FileHere(t, Top(t).stamp)] = None
                         THEN OpenTo(t, "write") ELSE To(t, "leave"))
         /\ Write(t) => Moves(t, To(t, "leave"))
<1>1. AfterEnter(Top(t)) \in {"enter"} \cup MonthPcs \cup LinePcs
  BY DEF AfterEnter, LinePcs, MonthPcs
<1>2. {"open", "write", "leave"} \subseteq {"enter"} \cup MonthPcs \cup LinePcs
  BY DEF LinePcs
<1>3. Enter(t) => Moves(t, To(t, AfterEnter(Top(t))))
  BY <1>1, GoesTo DEF Enter, EnterWhen, IsAt, Busy
<1>4. Format(t) /\ Fits(Top(t)) => Moves(t, To(t, "open"))
  BY <1>2, GoesTo DEF Format, FormatOr, IsAt, Busy
<1>5. ASSUME Open(t)
      PROVE  Moves(t, IF /\ FileHere(t, Top(t).stamp) \in made
                         /\ openBy[FileHere(t, Top(t).stamp)] = None
                        THEN OpenTo(t, "write") ELSE To(t, "leave"))
  <2>1. Busy(t)
    BY <1>5 DEF Open, IsAt, Busy
  <2>2. PICK f \in Frames : f = OpenTo(t, "write") /\ f.tag = Top(t).tag
                             /\ f.stamp = Top(t).stamp /\ f.dir = dir
    <3>1. PICK e \in Frames : e = Top(t)
      BY <2>1, StackShape
    <3>2. PICK o : o = [e EXCEPT !.dir = dir, !.at = "write"]
      OBVIOUS
    <3>3. o \in Frames /\ o.tag = e.tag /\ o.stamp = e.stamp /\ o.dir = dir
      BY <3>2 DEF Frames, LinePcs
    <3> QED BY <3>1, <3>2, <3>3 DEF OpenTo
  <2>3. f = [Top(t) EXCEPT !.dir = dir, !.at = "write"] /\ Name(f) = FileHere(t, Top(t).stamp)
    BY <2>2 DEF OpenTo, Name, FileHere
  <2>4. IF FileHere(t, Top(t).stamp) \in made /\ openBy[FileHere(t, Top(t).stamp)] = None
          THEN Become(t, f) ELSE Goto(t, "leave")
    BY <1>5, <2>3 DEF Open
  <2>5. CASE FileHere(t, Top(t).stamp) \in made /\ openBy[FileHere(t, Top(t).stamp)] = None
    BY <2>1, <2>2, <2>4, <2>5, Becomes
  <2>6. CASE ~ (FileHere(t, Top(t).stamp) \in made /\ openBy[FileHere(t, Top(t).stamp)] = None)
    BY <1>2, <2>1, <2>4, <2>6, GoesTo
  <2> QED BY <2>5, <2>6
<1>6. Write(t) => Moves(t, To(t, "leave"))
  BY <1>2, GoesTo DEF Write, IsAt, Busy
<1> QED BY <1>3, <1>4, <1>5, <1>6

LEMMA FrameMade ==
  ASSUME NEW g \in Tags, NEW m \in Messages \cup {Message}
  PROVE  /\ Frame(g, m) \in Frames /\ Frame(g, m).tag = g /\ Frame(g, m).msg = m
         /\ Frame(g, m).at \in {"stamp", "enter"} /\ ~ Holding(Frame(g, m))
         /\ Frame(g, m).stamp = 0 /\ Frame(g, m).now = 0 /\ ~ PastMonth(Frame(g, m))
<1>1. 0 \in Months /\ FirstDir \in Dirs /\ m.kind \in {"log", "hex"}
  BY Constants
<1> QED BY <1>1 DEF Frame, Frames, Holding, PastMonth, LinePcs, MonthPcs

\* a line that does not fit
Grows(t) ==
  /\ StackOK' /\ Busy(t) /\ Busy(t)' /\ Height(t)' = Height(t) + 1 /\ Rest(t)
  /\ Top(t)' = Frame(Top(t).tag, Message) /\ Top(t)' \in Frames
  /\ stack'[t][Height(t)] = Top(t)
  /\ \A i \in 1 .. Height(t) - 1 : stack'[t][i] = stack[t][i]

LEMMA FormatGrows ==
  ASSUME StackOK, NEW t \in Threads, Format(t), ~ Fits(Top(t))
  PROVE  Grows(t) /\ bufLen' = [bufLen EXCEPT ![Top(t).tag] = 2 * @]
<1>1. Busy(t) /\ Top(t).at = "format" /\ Top(t) \in Frames /\ Top(t).tag \in Tags
  BY StackShape DEF Format, FormatOr, IsAt, Busy, Frames
<1>2. ResizeBuffer(t, "format")
  BY DEF Format, FormatOr
<1>3. [Top(t) EXCEPT !.at = "format"] = Top(t)
  BY <1>1 DEF Frames
<1>4. /\ stack' = [stack EXCEPT ![t] = Below(t) \o <<Top(t), Frame(Top(t).tag, Message)>>]
      /\ bufLen' = [bufLen EXCEPT ![Top(t).tag] = 2 * @]
  BY <1>2, <1>3 DEF ResizeBuffer, Message
<1>5. Frame(Top(t).tag, Message) \in Frames /\ Frame(Top(t).tag, Message).tag = Top(t).tag
  BY <1>1, FrameMade
<1>6. /\ StackOK' /\ Busy(t)' /\ Height(t)' = Height(t) + 1
      /\ Top(t)' = Frame(Top(t).tag, Message) /\ Rest(t)
      /\ stack'[t][Height(t)] = Top(t)
      /\ \A i \in 1 .. Height(t) - 1 : stack'[t][i] = stack[t][i]
  BY <1>1, <1>4, <1>5, Interrupts
<1> QED BY <1>1, <1>4, <1>5, <1>6 DEF Grows

LEMMA CallMade ==
  ASSUME StackOK, NEW t \in Threads, NEW g \in Tags, NEW m \in Messages, NEW level \in Levels,
         Call(t, g, m, level)
  PROVE  ~Busy(t) /\ StackOK' /\ Busy(t)' /\ Height(t)' = 1 /\ Top(t)' = Frame(g, m) /\ Rest(t)
<1>1. Frame(g, m) \in Frames
  BY FrameMade
<1> QED BY <1>1, Calls DEF Call, Busy

LEMMA NextSplit ==
  ASSUME [Next]_vars
  PROVE  \/ UNCHANGED vars
         \/ MonthPasses \/ (\E d \in Dirs : SetDirectory(d)) \/ \E level \in Levels : SetLogLevel(level)
         \/ \E t \in Threads : Stamp(t) \/ Compare(t) \/ ReadClock(t) \/ SetMonth(t)
         \/ \E t \in Threads : Create(t) \/ WriteBOM(t)
         \/ \E t \in Threads : Enter(t) \/ Open(t) \/ Write(t) \/ Leave(t)
         \/ \E t \in Threads : Format(t)
         \/ \E t \in Threads, g \in Tags, m \in Messages, level \in Levels : Call(t, g, m, level)
BY Zenon DEF Next, Step

(***************************************************************************)
(* Types                                                                   *)
(***************************************************************************)
Types == TypeOK /\ files \in [Names -> Seq(Nat)] /\ StackOK

LEMMA StackStep ==
  ASSUME Types, [Next]_vars
  PROVE  StackOK'
<1>0. StackOK /\ month \in Months /\ dir \in Dirs
  BY DEF Types, TypeOK
<1>1. ASSUME UNCHANGED stack PROVE StackOK'
  BY <1>0, <1>1 DEF StackOK, Height, Top
<1>2. MonthPasses \/ (\E d \in Dirs : SetDirectory(d)) \/ (\E level \in Levels : SetLogLevel(level)) \/ UNCHANGED vars
        => UNCHANGED stack
  BY DEF MonthPasses, SetDirectory, SetLogLevel, vars
<1>3. ASSUME NEW t \in Threads, Stamp(t) \/ Compare(t) \/ ReadClock(t) \/ SetMonth(t)
      PROVE  StackOK'
  BY <1>0, <1>3, MonthMoves DEF Moves
<1>4. ASSUME NEW t \in Threads, Create(t) \/ WriteBOM(t)
      PROVE  StackOK'
  BY <1>0, <1>4, MonthMoves DEF Moves
<1>5. ASSUME NEW t \in Threads, Enter(t) \/ Open(t) \/ Write(t)
      PROVE  StackOK'
  BY <1>0, <1>5, LineMoves DEF Moves
<1>6. ASSUME NEW t \in Threads, Leave(t) PROVE StackOK'
  BY <1>0, <1>6, Returns DEF Leave, IsAt, Busy
<1>7. ASSUME NEW t \in Threads, Format(t) PROVE StackOK'
  BY <1>0, <1>7, LineMoves, FormatGrows DEF Moves, Grows
<1>8. ASSUME NEW t \in Threads, NEW g \in Tags, NEW m \in Messages, NEW level \in Levels,
             Call(t, g, m, level)
      PROVE  StackOK'
  BY <1>0, <1>8, CallMade
<1> QED BY <1>1, <1>2, <1>3, <1>4, <1>5, <1>6, <1>7, <1>8, NextSplit

LEMMA WmonthRange == \A m \in Months : Wmonth(m) \in 0 .. YearLen /\ Wmonth(m) # 0
<1> SUFFICES ASSUME NEW m \in Months PROVE Wmonth(m) \in 0 .. YearLen /\ Wmonth(m) # 0
  OBVIOUS
<1>1. m \in Nat /\ YearLen \in Nat /\ YearLen > 0
  BY Constants DEF Months
<1>2. \A i, j \in Nat : j > 0 => i % j \in 0 .. j - 1
  OBVIOUS
<1>3. m % YearLen \in 0 .. YearLen - 1
  BY <1>1, <1>2
<1> QED BY <1>1, <1>3 DEF Wmonth

LEMMA TypesStep ==
  ASSUME Types, LockOK, FileOK, LinesOK, [Next]_vars
  PROVE  Types'
<1>0. /\ StackOK /\ month \in Nat /\ month <= MaxMonth /\ folders \subseteq Dirs \X Months
      /\ dir \in Dirs /\ refused \subseteq Tags \X Months
      /\ made \subseteq Names
      /\ \A n \in Names : files[n] # <<>> => n \in made
      /\ openBy \in [Names -> Threads \cup {None}]
      /\ logLevel \in LEVEL_DEBUG .. LEVEL_SYSTEM /\ logCount \in Nat
      /\ tagMonth \in [Tags -> 0 .. YearLen] /\ bufLen \in [Tags -> Nat]
      /\ text \in [Tags -> 0 .. logCount] /\ lost \subseteq 1 .. logCount
      /\ owner \in [Tags -> Threads \cup {None}] /\ depth \in [Tags -> Nat]
      /\ calls \in Nat /\ calls <= MaxCalls /\ MaxCalls \in Nat /\ MaxMonth \in Nat
      /\ settings \in Nat /\ settings <= MaxSettings /\ MaxSettings \in Nat
      /\ files \in [Names -> Seq(Nat)]
  BY Constants DEF Types, TypeOK, counts, Months
<1>1. StackOK'
  BY StackStep
<1>2. ASSUME NEW t \in Threads, Busy(t)
      PROVE  /\ Top(t) \in Frames /\ Top(t).tag \in Tags /\ Top(t).now \in Months
             /\ Top(t).stamp \in Months /\ Name(Top(t)) \in Names /\ NewName(Top(t)) \in Names
             /\ FileHere(t, Top(t).now) \in Names /\ FileHere(t, Top(t).stamp) \in Names
  BY <1>0, <1>2, StackShape DEF Frames, Name, NewName, FileHere, Names
<1>3. CASE MonthPasses \/ (\E d \in Dirs : SetDirectory(d)) \/ (\E level \in Levels : SetLogLevel(level))
           \/ UNCHANGED vars
  <2>1. CASE MonthPasses
    BY <1>0, <1>1, <2>1 DEF MonthPasses, Types, TypeOK, counts, Months, diskVars, tagVars, lockVars
  <2>2. CASE \E d \in Dirs : SetDirectory(d)
    BY <1>0, <1>1, <2>2 DEF SetDirectory, Types, TypeOK, counts, Months, tagVars, lockVars
  <2>3. CASE \E level \in Levels : SetLogLevel(level)
    BY <1>0, <1>1, <2>3, ConstantsAssumption
       DEF SetLogLevel, Types, TypeOK, counts, Months, diskVars, tagVars, lockVars
  <2>4. CASE UNCHANGED vars
    BY <1>0, <1>1, <2>4 DEF vars, Types, TypeOK, counts, Months, diskVars, tagVars, lockVars
  <2> QED BY <1>3, <2>1, <2>2, <2>3, <2>4
<1>4. ASSUME NEW t \in Threads, Stamp(t) \/ Compare(t) \/ ReadClock(t)
      PROVE  Types'
  BY <1>0, <1>1, <1>4
     DEF Stamp, Compare, ReadClock, Types, TypeOK, counts, Months, diskVars, tagVars, lockVars
<1>5. ASSUME NEW t \in Threads, SetMonth(t) PROVE Types'
  <2>1. Wmonth(Top(t).now) \in 0 .. YearLen
    BY <1>2, <1>5, WmonthRange DEF SetMonth, IsAt, Busy
  <2> QED BY <1>0, <1>1, <1>5, <2>1 DEF SetMonth, Types, TypeOK, counts, Months, diskVars, lockVars
<1>6. ASSUME NEW t \in Threads, Create(t) PROVE Types'
  <2>1. Busy(t) /\ Top(t).tag \in Tags /\ Top(t).now \in Months
        /\ FileHere(t, Top(t).now) \in Names
    BY <1>2, <1>6 DEF Create, IsAt, Busy
  <2>2. NewName([Top(t) EXCEPT !.dir = dir, !.at = "bom"]) = FileHere(t, Top(t).now)
        /\ [Top(t) EXCEPT !.dir = dir, !.at = "bom"].now = Top(t).now
        /\ [Top(t) EXCEPT !.dir = dir, !.at = "bom"].tag = Top(t).tag
    BY <1>2, <2>1 DEF Frames, NewName, FileHere
  <2>3. /\ made' \in {made, made \cup {FileHere(t, Top(t).now)}}
        /\ openBy' \in {openBy, [openBy EXCEPT ![FileHere(t, Top(t).now)] = t]}
        /\ refused' \in {refused, refused \cup {<<Top(t).tag, Top(t).now>>}}
        /\ UNCHANGED <<month, dir, folders, files, logLevel, logCount, tagVars, lockVars, counts,
                       lost>>
    BY <1>6, <2>2 DEF Create
  <2>4. made' \subseteq Names /\ made \subseteq made' /\ openBy' \in [Names -> Threads \cup {None}]
    BY <1>0, <2>1, <2>3
  <2>5. refused' \subseteq Tags \X Months
    BY <1>0, <2>1, <2>3
  <2> QED BY <1>0, <1>1, <2>3, <2>4, <2>5 DEF Types, TypeOK, counts, Months, tagVars, lockVars
<1>7. ASSUME NEW t \in Threads, WriteBOM(t) PROVE Types'
  <2> DEFINE n == NewName(Top(t))
  <2>1. n \in Names /\ Marking(t, n)
    BY <1>2, <1>7 DEF WriteBOM, IsAt, Busy, Marking
  <2>2. n \in made
    BY <2>1 DEF FileOK, Using
  <2>3. files' \in [Names -> Seq(Nat)] /\ \A o \in Names : files'[o] # <<>> => o \in made
    <3>1. <<BOM>> \in Seq(Nat)
      BY DEF BOM
    <3> QED BY <1>0, <1>7, <2>1, <2>2, <3>1 DEF WriteBOM
  <2>4. openBy' \in [Names -> Threads \cup {None}]
    BY <1>0, <1>7 DEF WriteBOM
  <2> QED BY <1>0, <1>1, <1>7, <2>3, <2>4 DEF WriteBOM, Types, TypeOK, counts, Months, tagVars, lockVars
<1>8. ASSUME NEW t \in Threads, Enter(t) PROVE Types'
  <2>1. owner' \in [Tags -> Threads \cup {None}] /\ depth' \in [Tags -> Nat]
    <3>1. Top(t).tag \in Tags
      BY <1>2, <1>8 DEF Enter, EnterWhen, IsAt, Busy
    <3>2. /\ owner' = [owner EXCEPT ![Top(t).tag] = t]
          /\ depth' = [depth EXCEPT ![Top(t).tag] = depth[Top(t).tag] + 1]
      BY <1>8 DEF Enter, EnterWhen
    <3> QED BY <1>0, <3>1, <3>2
  <2> QED BY <1>0, <1>1, <1>8, <2>1 DEF Enter, EnterWhen, Types, TypeOK, counts, Months, diskVars, tagVars
<1>9. ASSUME NEW t \in Threads, Open(t) PROVE Types'
  <2>1. Top(t).tag \in Tags /\ text[Top(t).tag] \in 1 .. logCount
    <3>1. Pending(t) /\ Top(t).tag \in Tags
      BY <1>2, <1>9 DEF Open, IsAt, Busy, Pending
    <3> QED BY <1>0, <3>1 DEF LinesOK
  <2>2. Busy(t) /\ FileHere(t, Top(t).stamp) \in Names
    BY <1>2, <1>9 DEF Open, IsAt, Busy
  <2>3. Name([Top(t) EXCEPT !.dir = dir, !.at = "write"]) = FileHere(t, Top(t).stamp)
    BY <1>2, <2>2 DEF Frames, Name, FileHere
  <2>4. /\ openBy' \in {openBy, [openBy EXCEPT ![FileHere(t, Top(t).stamp)] = t]}
        /\ lost' \in {lost, lost \cup {text[Top(t).tag]}}
        /\ UNCHANGED <<month, dir, folders, refused, made, files, logLevel, logCount, tagVars,
                       lockVars, counts>>
    BY <1>9, <2>3 DEF Open
  <2>5. openBy' \in [Names -> Threads \cup {None}] /\ lost' \subseteq 1 .. logCount
    BY <1>0, <2>1, <2>2, <2>4
  <2> QED BY <1>0, <1>1, <2>4, <2>5 DEF Types, TypeOK, counts, Months, tagVars, lockVars
<1>10. ASSUME NEW t \in Threads, Write(t) PROVE Types'
  <2> DEFINE n == Name(Top(t))
  <2>1. n \in Names /\ Using(t, n) /\ text[Top(t).tag] \in Nat
    <3>1. Busy(t) /\ IsAt(t, "write")
      BY <1>10 DEF Write, IsAt, Busy
    <3>2. n \in Names /\ Top(t).tag \in Tags
      BY <1>2, <3>1
    <3> QED BY <1>0, <3>1, <3>2 DEF Using
  <2>2. n \in made
    BY <2>1 DEF FileOK
  <2>3. files' \in [Names -> Seq(Nat)] /\ \A o \in Names : files'[o] # <<>> => o \in made
    BY <1>0, <1>10, <2>1, <2>2 DEF Write
  <2>4. openBy' \in [Names -> Threads \cup {None}]
    BY <1>0, <1>10 DEF Write
  <2> QED BY <1>0, <1>1, <1>10, <2>3, <2>4 DEF Write, Types, TypeOK, counts, Months, tagVars, lockVars
<1>11. ASSUME NEW t \in Threads, Leave(t) PROVE Types'
  <2>1. Top(t).tag \in Tags /\ Busy(t) /\ Holding(Top(t)) /\ Height(t) \in Nat \ {0}
    <3>1. Busy(t) /\ Top(t).at = "leave"
      BY <1>11 DEF Leave, IsAt, Busy
    <3>2. Height(t) \in Nat \ {0}
      BY <1>0, <3>1, StackShape
    <3> QED BY <1>2, <3>1, <3>2 DEF Holding, LinePcs
  <2>2. depth[Top(t).tag] = Height(t)
    BY <2>1 DEF LockOK, Owns
  <2>3. depth' \in [Tags -> Nat] /\ owner' \in [Tags -> Threads \cup {None}]
    BY <1>0, <1>11, <2>1, <2>2 DEF Leave
  <2> QED BY <1>0, <1>1, <1>11, <2>3 DEF Leave, Types, TypeOK, counts, Months, diskVars, tagVars
<1>12. ASSUME NEW t \in Threads, Format(t) PROVE Types'
  <2>1. bufLen' \in [Tags -> Nat]
    <3>1. CASE Fits(Top(t))
      BY <1>0, <1>12, <3>1 DEF Format, FormatOr
    <3>2. CASE ~ Fits(Top(t))
      <4>1. Top(t).tag \in Tags
        BY <1>2, <1>12 DEF Format, FormatOr, IsAt, Busy
      <4>2. bufLen' = [bufLen EXCEPT ![Top(t).tag] = 2 * bufLen[Top(t).tag]]
        BY <1>0, <1>12, <3>2, FormatGrows
      <4>3. bufLen[Top(t).tag] \in Nat /\ 2 * bufLen[Top(t).tag] \in Nat
        BY <1>0, <4>1
      <4> QED BY <1>0, <4>2, <4>3
    <3> QED BY <3>1, <3>2
  <2>2. /\ logCount' = logCount + 1 /\ text' \in [Tags -> 0 .. logCount']
        /\ lost' \subseteq 1 .. logCount'
    <3>1. /\ logCount' = logCount + 1 /\ lost' = lost
          /\ text' = [text EXCEPT ![Top(t).tag] = logCount + 1]
      BY <1>12 DEF Format, FormatOr
    <3>2. /\ logCount' \in Nat /\ logCount + 1 \in 0 .. logCount'
          /\ \A i \in 0 .. logCount : i \in 0 .. logCount'
          /\ \A i \in 1 .. logCount : i \in 1 .. logCount'
      BY <1>0, <3>1
    <3> QED BY <1>0, <3>1, <3>2
  <2> QED
    BY <1>0, <1>1, <1>12, <2>1, <2>2
       DEF Format, FormatOr, Types, TypeOK, counts, Months, diskVars, lockVars
<1>13. ASSUME NEW t \in Threads, NEW g \in Tags, NEW m \in Messages, NEW level \in Levels,
              Call(t, g, m, level)
       PROVE  Types'
  BY <1>0, <1>1, <1>13 DEF Call, Types, TypeOK, counts, Months, diskVars, tagVars, lockVars
<1> QED
  BY <1>3, <1>4, <1>5, <1>6, <1>7, <1>8, <1>9, <1>10, <1>11, <1>12, <1>13, NextSplit

(***************************************************************************)
(* The critical sections                                                   *)
(***************************************************************************)
LEMMA LockKept ==
  ASSUME Types, LockOK, UNCHANGED lockVars,
         \A u \in Threads : /\ Owns(u)' <=> Owns(u)
                            /\ Owns(u) => /\ Top(u)'.tag = Top(u).tag /\ Height(u)' = Height(u)
                                          /\ Holding(Top(u))' <=> Holding(Top(u))
  PROVE  LockOK'
BY DEF LockOK, lockVars

LEMMA MoveKeepsLock ==
  ASSUME Types, LockOK, NEW t \in Threads, NEW f, Moves(t, f), f.tag = Top(t).tag,
         Holding(f) <=> Holding(Top(t)), UNCHANGED lockVars
  PROVE  LockOK'
<1>1. Busy(t) /\ Busy(t)' /\ Height(t)' = Height(t) /\ Top(t)' = f /\ Rest(t)
  BY DEF Moves
<1>2. Holding(Top(t))' <=> Holding(Top(t))
  BY <1>1 DEF Holding
<1>3. Owns(t)' <=> Owns(t)
  BY <1>1, <1>2 DEF Owns
<1>4. ASSUME NEW u \in Threads \ {t}
      PROVE  /\ (Owns(u)' <=> Owns(u)) /\ Top(u)'.tag = Top(u).tag /\ Height(u)' = Height(u)
             /\ Holding(Top(u))' <=> Holding(Top(u))
  BY <1>1, <1>4, RestSame DEF Holding
<1>5. \A u \in Threads : /\ Owns(u)' <=> Owns(u)
                         /\ Owns(u) => /\ Top(u)'.tag = Top(u).tag /\ Height(u)' = Height(u)
                                       /\ Holding(Top(u))' <=> Holding(Top(u))
  BY <1>1, <1>2, <1>3, <1>4
<1> QED BY <1>5, LockKept

LEMMA LockStep ==
  ASSUME Types, LockOK, [Next]_vars
  PROVE  LockOK'
<1>0. /\ StackOK /\ dir \in Dirs /\ month \in Months
      /\ owner \in [Tags -> Threads \cup {None}] /\ depth \in [Tags -> Nat]
      /\ None \notin Threads
  BY Constants DEF Types, TypeOK
<1>1. ASSUME NEW t \in Threads, Busy(t)
      PROVE  /\ Top(t) \in Frames /\ Top(t).tag \in Tags /\ Top(t).msg.kind \in {"log", "hex"}
             /\ Height(t) \in Nat \ {0}
  <2>1. Top(t) \in Frames /\ Height(t) \in Nat \ {0}
    BY <1>0, <1>1, StackShape
  <2> QED BY <2>1, Constants DEF Frames
<1>2. ASSUME UNCHANGED <<stack, lockVars>> PROVE LockOK'
  <2>1. \A u \in Threads : /\ (Owns(u)' <=> Owns(u)) /\ Top(u)' = Top(u) /\ Height(u)' = Height(u)
                           /\ Holding(Top(u))' <=> Holding(Top(u))
    BY <1>2 DEF Owns, Busy, Height, Top, Holding
  <2> QED BY <1>2, <2>1, LockKept
<1>3. MonthPasses \/ (\E d \in Dirs : SetDirectory(d)) \/ (\E level \in Levels : SetLogLevel(level)) \/ UNCHANGED vars
        => UNCHANGED <<stack, lockVars>>
  BY DEF MonthPasses, SetDirectory, SetLogLevel, vars
<1>4. ASSUME NEW t \in Threads, Stamp(t) \/ Compare(t) \/ ReadClock(t) \/ SetMonth(t)
      PROVE  LockOK'
  <2>1. PICK f : Moves(t, f) /\ f.tag = Top(t).tag /\ (Holding(f) <=> Holding(Top(t)))
    <3>1. Busy(t) /\ Top(t).at \in MonthPcs
      BY <1>4 DEF Stamp, Compare, ReadClock, SetMonth, IsAt, Busy, MonthPcs
    <3>2. Top(t) \in Frames /\ Top(t).msg.kind \in {"log", "hex"}
      BY <1>1, <3>1
    <3>3. CASE Stamp(t)
      <4> WITNESS [Top(t) EXCEPT !.stamp = month, !.at = "compare"]
      <4> QED BY <1>0, <3>1, <3>2, <3>3, MonthMoves DEF Frames, Holding, MonthPcs, LinePcs
    <3>4. CASE Compare(t)
      <4> WITNESS To(t, IF Wmonth(Top(t).stamp) # tagMonth[Top(t).tag]
                          THEN "clock" ELSE AfterMonth(Top(t)))
      <4> QED BY <1>0, <3>1, <3>2, <3>4, MonthMoves
              DEF Frames, Holding, MonthPcs, LinePcs, To, AfterMonth
    <3>5. CASE ReadClock(t)
      <4> WITNESS [Top(t) EXCEPT !.now = month, !.at = "month"]
      <4> QED BY <1>0, <3>1, <3>2, <3>5, MonthMoves DEF Frames, Holding, MonthPcs, LinePcs
    <3>6. CASE SetMonth(t)
      <4> WITNESS To(t, "create")
      <4> QED BY <1>0, <3>1, <3>2, <3>6, MonthMoves DEF Frames, Holding, MonthPcs, LinePcs, To
    <3> QED BY <1>4, <3>3, <3>4, <3>5, <3>6
  <2>2. UNCHANGED lockVars
    BY <1>4 DEF Stamp, Compare, ReadClock, SetMonth
  <2> QED BY <2>1, <2>2, MoveKeepsLock
<1>5. ASSUME NEW t \in Threads, Create(t) \/ WriteBOM(t)
      PROVE  LockOK'
  <2>1. PICK f : Moves(t, f) /\ f.tag = Top(t).tag /\ (Holding(f) <=> Holding(Top(t)))
    <3>1. Busy(t) /\ Top(t).at \in MonthPcs
      BY <1>5 DEF Create, WriteBOM, IsAt, Busy, MonthPcs
    <3>2. Top(t) \in Frames /\ Top(t).msg.kind \in {"log", "hex"}
      BY <1>1, <3>1
    <3>3. CASE Create(t)
      <4> WITNESS IF <<dir, Top(t).now>> \in folders /\ openBy[FileHere(t, Top(t).now)] = None
                    THEN OpenTo(t, "bom") ELSE To(t, AfterMonth(Top(t)))
      <4> QED BY <1>0, <3>1, <3>2, <3>3, MonthMoves
              DEF Frames, Holding, MonthPcs, LinePcs, To, OpenTo, AfterMonth
    <3>4. CASE WriteBOM(t)
      <4> WITNESS To(t, AfterMonth(Top(t)))
      <4> QED BY <1>0, <3>1, <3>2, <3>4, MonthMoves
              DEF Frames, Holding, MonthPcs, LinePcs, To, AfterMonth
    <3> QED BY <1>5, <3>3, <3>4
  <2>2. UNCHANGED lockVars
    BY <1>5 DEF Create, WriteBOM
  <2> QED BY <2>1, <2>2, MoveKeepsLock
<1>6. ASSUME NEW t \in Threads, Open(t) \/ Write(t) \/ (Format(t) /\ Fits(Top(t)))
      PROVE  LockOK'
  <2>1. PICK f : Moves(t, f) /\ f.tag = Top(t).tag /\ (Holding(f) <=> Holding(Top(t)))
    <3>1. Busy(t) /\ Top(t).at \in LinePcs
      BY <1>6 DEF Open, Write, Format, FormatOr, IsAt, Busy, LinePcs
    <3>2. Top(t) \in Frames
      BY <1>1, <3>1
    <3>3. CASE Open(t)
      <4> WITNESS IF /\ FileHere(t, Top(t).stamp) \in made
                     /\ openBy[FileHere(t, Top(t).stamp)] = None
                    THEN OpenTo(t, "write") ELSE To(t, "leave")
      <4> QED BY <1>0, <3>1, <3>2, <3>3, LineMoves DEF Frames, Holding, LinePcs, To, OpenTo
    <3>4. CASE Write(t)
      <4> WITNESS To(t, "leave")
      <4> QED BY <1>0, <3>1, <3>2, <3>4, LineMoves DEF Frames, Holding, LinePcs, To
    <3>5. CASE Format(t) /\ Fits(Top(t))
      <4> WITNESS To(t, "open")
      <4> QED BY <1>0, <3>1, <3>2, <3>5, LineMoves DEF Frames, Holding, LinePcs, To
    <3> QED BY <1>6, <3>3, <3>4, <3>5
  <2>2. UNCHANGED lockVars
    BY <1>6 DEF Open, Write, Format, FormatOr
  <2> QED BY <2>1, <2>2, MoveKeepsLock
<1>7. ASSUME NEW t \in Threads, Format(t), ~ Fits(Top(t))
      PROVE  LockOK'
  <2>1. Grows(t) /\ UNCHANGED lockVars
    BY <1>0, <1>7, FormatGrows DEF Format, FormatOr
  <2>2. Busy(t) /\ Top(t).at = "format" /\ Top(t).tag \in Tags /\ Height(t) \in Nat \ {0}
    BY <1>1, <1>7 DEF Format, FormatOr, IsAt, Busy
  <2>3. Holding(Top(t)) /\ Owns(t)
    BY <2>2 DEF Holding, LinePcs, Owns
  <2>4. Top(t)'.tag = Top(t).tag /\ ~ Holding(Top(t))'
    BY <2>1, <2>2, FrameMade DEF Grows, Holding
  <2>5. Owns(t)' /\ Height(t)' = Height(t) + 1 /\ Rest(t)
    BY <2>1, <2>2 DEF Grows, Owns
  <2>6. depth[Top(t).tag] = Height(t)
    BY <2>2, <2>3 DEF LockOK
  <2>7. ASSUME NEW u \in Threads \ {t}
        PROVE  /\ (Owns(u)' <=> Owns(u)) /\ Top(u)' = Top(u) /\ Height(u)' = Height(u)
               /\ Holding(Top(u))' <=> Holding(Top(u))
    BY <2>5, <2>7, RestSame DEF Holding
  <2>8. \A g \in Tags, u \in Threads : owner'[g] = u <=> Owns(u)' /\ Top(u)'.tag = g
    <3>1. \A g \in Tags, u \in Threads : owner'[g] = u <=> Owns(u) /\ Top(u).tag = g
      BY <2>1 DEF LockOK, lockVars
    <3>2. \A u \in Threads : (Owns(u)' <=> Owns(u)) /\ (Owns(u) => Top(u)'.tag = Top(u).tag)
      BY <2>3, <2>4, <2>5, <2>7
    <3> QED BY <3>1, <3>2
  <2>9. \A u \in Threads : Owns(u)' =>
          depth'[Top(u)'.tag] = Height(u)' - 1 + IF Holding(Top(u))' THEN 1 ELSE 0
    BY <2>1, <2>2, <2>4, <2>5, <2>6, <2>7 DEF LockOK, lockVars
  <2> QED BY <2>1, <2>8, <2>9 DEF LockOK, lockVars
<1>8. ASSUME NEW t \in Threads, NEW g \in Tags, NEW m \in Messages, NEW level \in Levels,
             Call(t, g, m, level)
      PROVE  LockOK'
  <2>1. ~Busy(t) /\ Busy(t)' /\ Height(t)' = 1 /\ Top(t)' = Frame(g, m) /\ Rest(t)
    BY <1>0, <1>8, CallMade
  <2>2. ~ Owns(t) /\ ~ Owns(t)'
    <3>1. ~ Holding(Top(t))'
      BY <2>1, FrameMade DEF Holding
    <3> QED BY <2>1, <3>1 DEF Owns
  <2>3. ASSUME NEW u \in Threads \ {t}
        PROVE  /\ (Owns(u)' <=> Owns(u)) /\ Top(u)' = Top(u) /\ Height(u)' = Height(u)
               /\ Holding(Top(u))' <=> Holding(Top(u))
    BY <2>1, <2>3, RestSame DEF Holding
  <2>4. UNCHANGED lockVars
    BY <1>8 DEF Call
  <2>5. \A u \in Threads : /\ Owns(u)' <=> Owns(u)
                           /\ Owns(u) => /\ Top(u)'.tag = Top(u).tag /\ Height(u)' = Height(u)
                                         /\ Holding(Top(u))' <=> Holding(Top(u))
    BY <2>2, <2>3
  <2> QED BY <2>4, <2>5, LockKept
<1>9. ASSUME NEW t \in Threads, Enter(t)
      PROVE  LockOK'
  <2>1. Busy(t) /\ Top(t).at = "enter" /\ owner[Top(t).tag] \in {None, t}
    BY <1>9 DEF Enter, EnterWhen, IsAt, Busy
  <2>2. Top(t).tag \in Tags /\ Height(t) \in Nat \ {0} /\ Top(t) \in Frames
        /\ Top(t).msg.kind \in {"log", "hex"}
    BY <1>1, <2>1
  <2>3. /\ owner' = [owner EXCEPT ![Top(t).tag] = t]
        /\ depth' = [depth EXCEPT ![Top(t).tag] = depth[Top(t).tag] + 1]
    BY <1>9 DEF Enter, EnterWhen
  <2>4. Moves(t, To(t, AfterEnter(Top(t))))
    BY <1>0, <1>9, LineMoves
  <2>5. /\ Busy(t)' /\ Height(t)' = Height(t) /\ Rest(t)
        /\ Top(t)'.tag = Top(t).tag /\ Top(t)'.msg = Top(t).msg
        /\ Top(t)'.at = AfterEnter(Top(t))
    BY <2>2, <2>4 DEF Moves, To, Frames
  <2>6. Holding(Top(t))' /\ Owns(t)' /\ ~ Holding(Top(t))
    <3>1. ~ Holding(Top(t))
      BY <2>1 DEF Holding, LinePcs, MonthPcs
    <3>2. Holding(Top(t))'
      BY <2>2, <2>5 DEF Holding, LinePcs, MonthPcs, AfterEnter
    <3> QED BY <2>5, <3>1, <3>2 DEF Owns
  <2>7. depth[Top(t).tag] = Height(t) - 1
    <3>1. CASE owner[Top(t).tag] = t
      BY <2>2, <2>6, <3>1 DEF LockOK
    <3>2. CASE owner[Top(t).tag] = None
      <4>1. ~ Owns(t) /\ depth[Top(t).tag] = 0
        BY <1>0, <2>2, <3>2 DEF LockOK
      <4> QED BY <2>1, <2>2, <4>1 DEF Owns
    <3> QED BY <2>1, <3>1, <3>2
  <2>8. ASSUME NEW u \in Threads \ {t}
        PROVE  /\ (Owns(u)' <=> Owns(u)) /\ Top(u)' = Top(u) /\ Height(u)' = Height(u)
               /\ Holding(Top(u))' <=> Holding(Top(u))
               /\ Owns(u) => Top(u).tag # Top(t).tag
    <3>1. Owns(u) => Top(u).tag # Top(t).tag
      BY <1>0, <2>1, <2>2 DEF LockOK
    <3> QED BY <2>5, <2>8, <3>1, RestSame DEF Holding
  <2>9. ASSUME NEW g \in Tags, NEW u \in Threads
        PROVE  owner'[g] = u <=> Owns(u)' /\ Top(u)'.tag = g
    <3>1. CASE g = Top(t).tag
      BY <1>0, <2>2, <2>3, <2>5, <2>6, <2>8, <3>1
    <3>2. CASE g # Top(t).tag /\ u = t
      <4>1. owner[g] # t
        BY <3>2 DEF LockOK
      <4> QED BY <1>0, <2>3, <2>5, <3>2, <4>1
    <3>3. CASE g # Top(t).tag /\ u # t
      <4>1. owner'[g] = owner[g] /\ (owner[g] = u <=> Owns(u) /\ Top(u).tag = g)
        BY <1>0, <2>3, <3>3 DEF LockOK
      <4> QED BY <2>8, <3>3, <4>1
    <3> QED BY <3>1, <3>2, <3>3
  <2>10. \A g \in Tags : owner'[g] = None => depth'[g] = 0
    BY <1>0, <2>2, <2>3 DEF LockOK
  <2>11. ASSUME NEW u \in Threads, Owns(u)'
         PROVE  depth'[Top(u)'.tag] = Height(u)' - 1 + IF Holding(Top(u))' THEN 1 ELSE 0
    <3>1. CASE u = t
      BY <1>0, <2>2, <2>3, <2>5, <2>6, <2>7, <3>1
    <3>2. CASE u # t
      <4>1. Owns(u) /\ Top(u).tag \in Tags
        BY <1>1, <2>8, <2>11, <3>2 DEF Owns
      <4>2. depth'[Top(u).tag] = depth[Top(u).tag]
        BY <1>0, <2>3, <2>8, <3>2, <4>1
      <4>3. depth[Top(u).tag] = Height(u) - 1 + IF Holding(Top(u)) THEN 1 ELSE 0
        BY <4>1 DEF LockOK
      <4> QED BY <2>8, <3>2, <4>2, <4>3
    <3> QED BY <3>1, <3>2
  <2> QED BY <2>9, <2>10, <2>11 DEF LockOK
<1>10. ASSUME NEW t \in Threads, Leave(t)
      PROVE  LockOK'
  <2>1. Busy(t) /\ Top(t).at = "leave" /\ Return(t)
    BY <1>10 DEF Leave, IsAt, Busy
  <2>2. Top(t).tag \in Tags /\ Height(t) \in Nat \ {0} /\ Holding(Top(t)) /\ Owns(t)
    BY <1>1, <2>1 DEF Holding, LinePcs, Owns
  <2>3. owner[Top(t).tag] = t /\ depth[Top(t).tag] = Height(t)
    BY <2>2 DEF LockOK
  <2>4. /\ depth' = [depth EXCEPT ![Top(t).tag] = depth[Top(t).tag] - 1]
        /\ owner' = [owner EXCEPT ![Top(t).tag] =
                       IF depth[Top(t).tag] = 1 THEN None ELSE owner[Top(t).tag]]
    BY <1>10 DEF Leave
  <2>5. /\ Height(t)' = Height(t) - 1 /\ Rest(t)
        /\ Height(t) = 1 => ~ Busy(t)'
        /\ Height(t) > 1 => Busy(t)' /\ Top(t)'.at = "format" /\ Top(t)'.tag = Top(t).tag
    BY <1>0, <2>1, Returns
  <2>6. Height(t) = 1 => ~ Owns(t)'
    BY <2>5 DEF Owns
  <2>7. Height(t) > 1 => Holding(Top(t))' /\ Owns(t)'
    <3>1. Height(t) > 1 => Holding(Top(t))'
      BY <2>5 DEF Holding, LinePcs
    <3> QED BY <2>5, <3>1 DEF Owns
  <2>8. ASSUME NEW u \in Threads \ {t}
        PROVE  /\ (Owns(u)' <=> Owns(u)) /\ Top(u)' = Top(u) /\ Height(u)' = Height(u)
               /\ Holding(Top(u))' <=> Holding(Top(u))
               /\ Owns(u) => Top(u).tag # Top(t).tag
    <3>1. Owns(u) => Top(u).tag # Top(t).tag
      BY <2>2, <2>3 DEF LockOK
    <3> QED BY <2>5, <2>8, <3>1, RestSame DEF Holding
  <2>9. ASSUME NEW g \in Tags, NEW u \in Threads
        PROVE  owner'[g] = u <=> Owns(u)' /\ Top(u)'.tag = g
    <3>1. CASE g = Top(t).tag /\ Height(t) = 1
      BY <1>0, <2>2, <2>3, <2>4, <2>6, <2>8, <3>1
    <3>2. CASE g = Top(t).tag /\ Height(t) > 1
      BY <1>0, <2>2, <2>3, <2>4, <2>5, <2>7, <2>8, <3>2
    <3>3. CASE g # Top(t).tag /\ u = t
      <4>1. owner[g] # t
        BY <3>3 DEF LockOK
      <4> QED BY <1>0, <2>2, <2>4, <2>5, <2>6, <3>3, <4>1
    <3>4. CASE g # Top(t).tag /\ u # t
      <4>1. owner'[g] = owner[g] /\ (owner[g] = u <=> Owns(u) /\ Top(u).tag = g)
        BY <1>0, <2>4, <3>4 DEF LockOK
      <4> QED BY <2>8, <3>4, <4>1
    <3> QED BY <2>2, <3>1, <3>2, <3>3, <3>4
  <2>10. \A g \in Tags : owner'[g] = None => depth'[g] = 0
    BY <1>0, <2>2, <2>3, <2>4 DEF LockOK
  <2>11. ASSUME NEW u \in Threads, Owns(u)'
         PROVE  depth'[Top(u)'.tag] = Height(u)' - 1 + IF Holding(Top(u))' THEN 1 ELSE 0
    <3>1. CASE u = t
      BY <1>0, <2>2, <2>3, <2>4, <2>5, <2>6, <2>7, <2>11, <3>1
    <3>2. CASE u # t
      <4>1. Owns(u) /\ Top(u).tag \in Tags
        BY <1>1, <2>8, <2>11, <3>2 DEF Owns
      <4>2. depth'[Top(u).tag] = depth[Top(u).tag]
        BY <1>0, <2>4, <2>8, <3>2, <4>1
      <4>3. depth[Top(u).tag] = Height(u) - 1 + IF Holding(Top(u)) THEN 1 ELSE 0
        BY <4>1 DEF LockOK
      <4> QED BY <2>8, <3>2, <4>2, <4>3
    <3> QED BY <3>1, <3>2
  <2> QED BY <2>9, <2>10, <2>11 DEF LockOK
<1> QED
  BY <1>2, <1>3, <1>4, <1>5, <1>6, <1>7, <1>8, <1>9, <1>10, NextSplit

(***************************************************************************)
(* The files                                                               *)
(***************************************************************************)
LEMMA NotUsing ==
  ASSUME NEW t \in Threads
  PROVE  /\ (Busy(t) => Top(t).at \notin {"bom", "write"}) =>
              \A n \in Names : ~ Using(t, n) /\ ~ Marking(t, n)
         /\ (Busy(t)' => Top(t)'.at \notin {"bom", "write"}) =>
              \A n \in Names : ~ Using(t, n)' /\ ~ Marking(t, n)'
BY DEF Using, Marking, IsAt, Busy

\* who uses no file, before and after, leaves the files alone
LEMMA FilesLeft ==
  ASSUME FileOK, NEW t \in Threads, Rest(t), UNCHANGED <<made, files, openBy>>,
         Busy(t) => Top(t).at \notin {"bom", "write"},
         Busy(t)' => Top(t)'.at \notin {"bom", "write"}
  PROVE  FileOK'
<1>1. \A n \in Names : ~ Using(t, n) /\ ~ Marking(t, n) /\ ~ Using(t, n)' /\ ~ Marking(t, n)'
  BY NotUsing
<1>2. \A u \in Threads \ {t}, n \in Names :
        (Using(u, n)' <=> Using(u, n)) /\ (Marking(u, n)' <=> Marking(u, n))
  BY RestSame
<1>3. \A u \in Threads, n \in Names :
        (Using(u, n)' <=> Using(u, n)) /\ (Marking(u, n)' <=> Marking(u, n))
  BY <1>1, <1>2
<1> QED BY <1>3 DEF FileOK

LEMMA FileStep ==
  ASSUME Types, FileOK, [Next]_vars
  PROVE  FileOK'
<1>0. /\ StackOK /\ dir \in Dirs /\ month \in Months /\ openBy \in [Names -> Threads \cup {None}]
      /\ files \in [Names -> Seq(Nat)] /\ None \notin Threads
  BY Constants DEF Types, TypeOK
<1>1. ASSUME NEW t \in Threads, Busy(t)
      PROVE  /\ Top(t) \in Frames /\ Name(Top(t)) \in Names /\ NewName(Top(t)) \in Names
             /\ FileHere(t, Top(t).now) \in Names /\ FileHere(t, Top(t).stamp) \in Names
  BY <1>0, <1>1, StackShape DEF Frames, Name, NewName, FileHere, Names
<1>2. ASSUME UNCHANGED <<stack, made, files, openBy>> PROVE FileOK'
  <2>1. \A u \in Threads, n \in Names :
          (Using(u, n)' <=> Using(u, n)) /\ (Marking(u, n)' <=> Marking(u, n))
    BY <1>2 DEF Using, Marking, IsAt, Top, Name, NewName
  <2> QED BY <1>2, <2>1 DEF FileOK
<1>3. MonthPasses \/ (\E d \in Dirs : SetDirectory(d)) \/ (\E level \in Levels : SetLogLevel(level)) \/ UNCHANGED vars
        => UNCHANGED <<stack, made, files, openBy>>
  BY DEF MonthPasses, SetDirectory, SetLogLevel, vars, diskVars
<1>4. ASSUME NEW t \in Threads, Stamp(t) \/ Compare(t) \/ ReadClock(t) \/ SetMonth(t)
      PROVE  FileOK'
  <2>1. Busy(t) /\ Top(t).at \notin {"bom", "write"} /\ UNCHANGED <<made, files, openBy>>
    BY <1>4 DEF Stamp, Compare, ReadClock, SetMonth, IsAt, Busy, diskVars
  <2>2. Top(t) \in Frames
    BY <1>1, <2>1
  <2>3. Rest(t) /\ Top(t)'.at \notin {"bom", "write"}
    BY <1>0, <1>4, <2>2, MonthMoves, ZenonT(60) DEF Moves, To, Frames, AfterMonth
  <2> QED BY <2>1, <2>3, FilesLeft
<1>5. ASSUME NEW t \in Threads, NEW g \in Tags, NEW m \in Messages, NEW level \in Levels,
             Call(t, g, m, level)
      PROVE  FileOK'
  <2>1. ~ Busy(t) /\ Rest(t) /\ Top(t)' = Frame(g, m) /\ UNCHANGED <<made, files, openBy>>
    BY <1>0, <1>5, CallMade DEF Call, diskVars
  <2>2. Top(t)'.at \notin {"bom", "write"}
    BY <2>1, FrameMade
  <2> QED BY <2>1, <2>2, FilesLeft
<1>6. ASSUME NEW t \in Threads, Enter(t) \/ Format(t) \/ Leave(t)
      PROVE  FileOK'
  <2>1. Busy(t) /\ Top(t).at \notin {"bom", "write"} /\ UNCHANGED <<made, files, openBy>>
    BY <1>6 DEF Enter, EnterWhen, Format, FormatOr, Leave, IsAt, Busy, diskVars
  <2>2. Top(t) \in Frames
    BY <1>1, <2>1
  <2>3. CASE Enter(t)
    <3>1. Rest(t) /\ Top(t)'.at \notin {"bom", "write"}
      <4>1. Moves(t, To(t, AfterEnter(Top(t))))
        BY <1>0, <2>3, LineMoves
      <4> QED BY <2>2, <4>1 DEF Moves, To, Frames, AfterEnter
    <3> QED BY <2>1, <3>1, FilesLeft
  <2>4. CASE Format(t) /\ Fits(Top(t))
    <3>1. Rest(t) /\ Top(t)'.at \notin {"bom", "write"}
      <4>1. Moves(t, To(t, "open"))
        BY <1>0, <2>4, LineMoves
      <4> QED BY <2>2, <4>1 DEF Moves, To, Frames
    <3> QED BY <2>1, <3>1, FilesLeft
  <2>5. CASE Format(t) /\ ~ Fits(Top(t))
    <3>1. Rest(t) /\ Top(t)' = Frame(Top(t).tag, Message) /\ Top(t).tag \in Tags
      BY <1>0, <2>2, <2>5, FormatGrows DEF Grows, Frames
    <3>2. Top(t)'.at \notin {"bom", "write"}
      BY <3>1, FrameMade
    <3> QED BY <2>1, <3>1, <3>2, FilesLeft
  <2>6. CASE Leave(t)
    <3>1. Rest(t) /\ (Busy(t)' => Top(t)'.at \notin {"bom", "write"})
      BY <1>0, <2>1, <2>6, Returns, StackShape DEF Leave
    <3> QED BY <2>1, <3>1, FilesLeft
  <2> QED BY <1>6, <2>3, <2>4, <2>5, <2>6
<1>7. ASSUME NEW t \in Threads, Create(t) PROVE FileOK'
  <2> DEFINE n == FileHere(t, Top(t).now)
  <2>0. Busy(t) => NewName([Top(t) EXCEPT !.dir = dir, !.at = "bom"]) = n
                   /\ [Top(t) EXCEPT !.dir = dir, !.at = "bom"].now = Top(t).now
    BY <1>1 DEF Frames, NewName, FileHere
  <2>1. Busy(t) /\ Top(t).at = "create" /\ Top(t) \in Frames /\ n \in Names
    BY <1>1, <1>7 DEF Create, IsAt, Busy
  <2>2. CASE <<dir, Top(t).now>> \in folders /\ openBy[n] = None
    <3>1. /\ made' = made \cup {n} /\ openBy' = [openBy EXCEPT ![n] = t] /\ files' = files
      BY <1>7, <2>0, <2>1, <2>2 DEF Create
    <3>2. Moves(t, OpenTo(t, "bom"))
      BY <1>0, <1>7, <2>2, MonthMoves
    <3>3. Busy(t)' /\ Top(t)'.at = "bom" /\ NewName(Top(t)') = n /\ Rest(t)
      BY <2>1, <3>2 DEF Moves, OpenTo, Frames, NewName, FileHere
    <3>4. \A o \in Names : /\ (Using(t, o)' <=> o = n) /\ (Marking(t, o)' <=> o = n)
                           /\ ~ Using(t, o) /\ ~ Marking(t, o)
      <4>1. IsAt(t, "bom")' /\ ~ IsAt(t, "write")' /\ NewName(Top(t))' = n
        BY <3>3 DEF IsAt, Busy, NewName
      <4>2. ~ IsAt(t, "bom") /\ ~ IsAt(t, "write")
        BY <2>1 DEF IsAt
      <4> QED BY <4>1, <4>2 DEF Using, Marking
    <3>5. \A u \in Threads \ {t}, o \in Names :
            (Using(u, o)' <=> Using(u, o)) /\ (Marking(u, o)' <=> Marking(u, o))
      BY <3>3, RestSame
    <3>6. \A u \in Threads : ~ Using(u, n)
      BY <1>0, <2>1, <2>2 DEF FileOK
    <3> HIDE DEF n
    <3>7. \A o \in Names, u \in Threads : openBy'[o] = u <=> Using(u, o)'
      BY <1>0, <2>1, <3>1, <3>4, <3>5, <3>6, SMTT(30) DEF FileOK
    <3>8. \A o \in Names, u \in Threads : Using(u, o)' => o \in made'
      BY <2>1, <3>1, <3>4, <3>5 DEF FileOK
    <3>9. ASSUME NEW o \in Names, o \in made', files'[o] = <<>>
          PROVE  \E u \in Threads : Marking(u, o)'
      <4>1. CASE o = n
        BY <3>4, <4>1
      <4>2. CASE o # n
        <5>1. PICK u \in Threads : Marking(u, o)
          BY <3>1, <3>9, <4>2 DEF FileOK
        <5> QED BY <3>4, <3>5, <5>1
      <4> QED BY <4>1, <4>2
    <3>10. \A o \in Names, u \in Threads : Using(u, o)' => Marking(u, o)' \/ files'[o] # <<>>
      BY <3>1, <3>4, <3>5 DEF FileOK
    <3> QED BY <3>7, <3>8, <3>9, <3>10 DEF FileOK
  <2>3. CASE ~ (<<dir, Top(t).now>> \in folders /\ openBy[n] = None)
    <3>1. UNCHANGED <<made, files, openBy>>
      BY <1>7, <2>0, <2>1, <2>3 DEF Create
    <3>2. Moves(t, To(t, AfterMonth(Top(t))))
      BY <1>0, <1>7, <2>3, MonthMoves
    <3>3. Rest(t) /\ Top(t)'.at \notin {"bom", "write"}
      BY <2>1, <3>2 DEF Moves, To, Frames, AfterMonth
    <3> QED BY <2>1, <3>1, <3>3, FilesLeft
  <2> QED BY <2>2, <2>3
<1>8. ASSUME NEW t \in Threads, NEW n \in Names, Using(t, n), Rest(t), made' = made,
             openBy' = [openBy EXCEPT ![n] = None],
             \A o \in Names \ {n} : files'[o] = files[o], files'[n] # <<>>,
             \A o \in Names : ~ Using(t, o)' /\ ~ Marking(t, o)'
      PROVE  FileOK'
  <2>1. \A u \in Threads \ {t}, o \in Names :
          (Using(u, o)' <=> Using(u, o)) /\ (Marking(u, o)' <=> Marking(u, o))
    BY <1>8, RestSame
  <2>2. openBy[n] = t /\ \A o \in Names : Using(t, o) => o = n
    BY <1>8 DEF FileOK, Using, Marking, IsAt
  <2>3. \A o \in Names, u \in Threads : openBy'[o] = u <=> Using(u, o)'
    BY <1>0, <1>8, <2>1, <2>2, ZenonT(60) DEF FileOK
  <2>4. \A o \in Names, u \in Threads : Using(u, o)' => o \in made'
    BY <1>8, <2>1 DEF FileOK
  <2>5. ASSUME NEW o \in Names, o \in made', files'[o] = <<>>
        PROVE  \E u \in Threads : Marking(u, o)'
    <3>1. o # n /\ files[o] = <<>> /\ o \in made
      BY <1>8, <2>5
    <3>2. PICK u \in Threads : Marking(u, o)
      BY <3>1 DEF FileOK
    <3>3. u # t
      BY <2>2, <3>1, <3>2 DEF Using
    <3> QED BY <2>1, <3>2, <3>3
  <2>6. ASSUME NEW o \in Names, NEW u \in Threads, Using(u, o)'
        PROVE  Marking(u, o)' \/ files'[o] # <<>>
    <3>1. u # t /\ Using(u, o)
      BY <1>8, <2>1, <2>6
    <3> QED BY <1>8, <2>1, <3>1 DEF FileOK
  <2> QED BY <2>3, <2>4, <2>5, <2>6 DEF FileOK
<1>9. ASSUME NEW t \in Threads, WriteBOM(t) PROVE FileOK'
  <2> DEFINE n == NewName(Top(t))
  <2>1. Busy(t) /\ Top(t).at = "bom" /\ Top(t) \in Frames /\ n \in Names
    BY <1>1, <1>9 DEF WriteBOM, IsAt, Busy
  <2>2. Using(t, n)
    BY <2>1 DEF Using, Marking, IsAt, Busy
  <2>3. Moves(t, To(t, AfterMonth(Top(t))))
    BY <1>0, <1>9, MonthMoves
  <2>4. Rest(t) /\ Top(t)'.at \notin {"bom", "write"}
    BY <2>1, <2>3 DEF Moves, To, Frames, AfterMonth
  <2>5. \A o \in Names : ~ Using(t, o)' /\ ~ Marking(t, o)'
    BY <2>4, NotUsing
  <2>6. made' = made /\ openBy' = [openBy EXCEPT ![n] = None]
    BY <1>9 DEF WriteBOM
  <2>7. (\A o \in Names \ {n} : files'[o] = files[o]) /\ files'[n] # <<>>
    BY <1>0, <1>9, <2>1 DEF WriteBOM
  <2> HIDE DEF n
  <2> QED BY <1>8, <2>1, <2>2, <2>4, <2>5, <2>6, <2>7
<1>10. ASSUME NEW t \in Threads, Write(t) PROVE FileOK'
  <2> DEFINE n == Name(Top(t))
  <2>1. Busy(t) /\ Top(t).at = "write" /\ Top(t) \in Frames /\ n \in Names
    BY <1>1, <1>10 DEF Write, IsAt, Busy
  <2>2. Using(t, n)
    BY <2>1 DEF Using, IsAt, Busy
  <2>3. Moves(t, To(t, "leave"))
    BY <1>0, <1>10, LineMoves
  <2>4. Rest(t) /\ Top(t)'.at \notin {"bom", "write"}
    BY <2>1, <2>3 DEF Moves, To, Frames
  <2>5. \A o \in Names : ~ Using(t, o)' /\ ~ Marking(t, o)'
    BY <2>4, NotUsing
  <2>6. made' = made /\ openBy' = [openBy EXCEPT ![n] = None]
    BY <1>10 DEF Write
  <2>7. files' = [files EXCEPT ![n] = Append(files[n], text[Top(t).tag])]
    BY <1>10 DEF Write
  <2>8. (\A o \in Names \ {n} : files'[o] = files[o]) /\ files'[n] # <<>>
    <3> HIDE DEF n
    <3>1. \A q \in Seq(Nat) : \A x \in Nat : Append(q, x) # <<>>
      OBVIOUS
    <3>2. text[Top(t).tag] \in Nat /\ files[n] \in Seq(Nat)
      BY <2>1, <1>0 DEF Types, TypeOK, Frames
    <3> QED BY <1>0, <2>1, <2>7, <3>1, <3>2
  <2> HIDE DEF n
  <2> QED BY <1>8, <2>1, <2>2, <2>4, <2>5, <2>6, <2>8
<1>11. ASSUME NEW t \in Threads, Open(t) PROVE FileOK'
  <2> DEFINE n == FileHere(t, Top(t).stamp)
  <2>0. Busy(t) => Name([Top(t) EXCEPT !.dir = dir, !.at = "write"]) = n
    BY <1>1 DEF Frames, Name, FileHere
  <2>1. Busy(t) /\ Top(t).at = "open" /\ Top(t) \in Frames /\ n \in Names
    BY <1>1, <1>11 DEF Open, IsAt, Busy
  <2>2. CASE n \in made /\ openBy[n] = None
    <3>1. openBy' = [openBy EXCEPT ![n] = t] /\ files' = files /\ made' = made
      BY <1>11, <2>0, <2>1, <2>2 DEF Open
    <3>2. Moves(t, OpenTo(t, "write"))
      BY <1>0, <1>11, <2>2, LineMoves
    <3>3. /\ Busy(t)' /\ Top(t)'.at = "write" /\ Name(Top(t)') = n /\ Rest(t)
      BY <2>1, <3>2 DEF Moves, OpenTo, Frames, Name, FileHere
    <3>4. \A o \in Names : /\ (Using(t, o)' <=> o = n) /\ ~ Marking(t, o)'
                           /\ ~ Using(t, o) /\ ~ Marking(t, o)
      <4>1. IsAt(t, "write")' /\ ~ IsAt(t, "bom")' /\ Name(Top(t))' = n
        BY <3>3 DEF IsAt, Busy, Name
      <4>2. ~ IsAt(t, "bom") /\ ~ IsAt(t, "write")
        BY <2>1 DEF IsAt
      <4> QED BY <4>1, <4>2 DEF Using, Marking
    <3>5. \A u \in Threads \ {t}, o \in Names :
            (Using(u, o)' <=> Using(u, o)) /\ (Marking(u, o)' <=> Marking(u, o))
      BY <3>3, RestSame
    <3>6. \A u \in Threads : ~ Using(u, n)
      BY <1>0, <2>1, <2>2 DEF FileOK
    <3>7. files[n] # <<>>
      BY <2>1, <2>2, <3>6 DEF FileOK, Using
    <3> HIDE DEF n
    <3>8. \A o \in Names, u \in Threads : openBy'[o] = u <=> Using(u, o)'
      BY <1>0, <2>1, <3>1, <3>4, <3>5, <3>6, ZenonT(60) DEF FileOK
    <3>9. \A o \in Names, u \in Threads : Using(u, o)' => o \in made'
      BY <2>2, <3>1, <3>4, <3>5 DEF FileOK
    <3>10. ASSUME NEW o \in Names, o \in made', files'[o] = <<>>
           PROVE  \E u \in Threads : Marking(u, o)'
      <4>1. PICK u \in Threads : Marking(u, o)
        BY <3>1, <3>10 DEF FileOK
      <4> QED BY <3>4, <3>5, <4>1
    <3>11. \A o \in Names, u \in Threads : Using(u, o)' => Marking(u, o)' \/ files'[o] # <<>>
      BY <3>1, <3>4, <3>5, <3>7 DEF FileOK
    <3> QED BY <3>8, <3>9, <3>10, <3>11 DEF FileOK
  <2>3. CASE ~ (n \in made /\ openBy[n] = None)
    <3>1. UNCHANGED <<made, files, openBy>>
      BY <1>11, <2>0, <2>1, <2>3 DEF Open
    <3>2. Moves(t, To(t, "leave"))
      BY <1>0, <1>11, <2>3, LineMoves
    <3>3. Rest(t) /\ Top(t)'.at \notin {"bom", "write"}
      BY <2>1, <3>2 DEF Moves, To, Frames
    <3> QED BY <2>1, <3>1, <3>3, FilesLeft
  <2> QED BY <2>2, <2>3
<1> QED
  BY <1>2, <1>3, <1>4, <1>5, <1>6, <1>7, <1>9, <1>10, <1>11, NextSplit

(***************************************************************************)
(* The lines                                                               *)
(***************************************************************************)
\* one file, and the line a thread has at hand
FileLines(n) ==
  \A i \in DOMAIN files[n] :
    /\ files[n][1] = BOM /\ files[n][i] \notin lost /\ files[n][i] <= logCount
    /\ \A j \in 1 .. i - 1 : files[n][j] < files[n][i]
    /\ \A h \in Tags \ {n[2]} : files[n][i] = text[h] => text[h] = 0
Distinct == \A g, h \in Tags : g # h /\ text[g] = text[h] => text[g] = 0
NewLine(g) ==
  /\ text[g] > 0 /\ text[g] \notin lost
  /\ \A n \in Names : n[2] = g => \A i \in DOMAIN files[n] : files[n][i] < text[g]

LEMMA LinesParts ==
  LinesOK <=> /\ \A n \in Names : FileLines(n)
              /\ Distinct
              /\ \A t \in Threads : Pending(t) => NewLine(Top(t).tag)
BY DEF LinesOK, FileLines, Distinct, NewLine

\* who has a line at hand has the lock
LEMMA PendingOwns ==
  ASSUME Types, LockOK, NEW t \in Threads, NEW u \in Threads, u # t,
         Busy(t), Top(t).at \in LinePcs, Pending(u)
  PROVE  Top(u).tag # Top(t).tag /\ Top(t).tag \in Tags /\ Top(u).tag \in Tags
<1>1. Owns(t) /\ Owns(u)
  BY DEF Pending, Owns, Holding, LinePcs
<1>2. Top(t).tag \in Tags /\ Top(u).tag \in Tags
  BY StackShape DEF Types, Pending, Frames
<1> QED BY <1>1, <1>2 DEF LockOK

LEMMA LinesKept ==
  ASSUME LinesOK, NEW t \in Threads, Rest(t), UNCHANGED <<files, lost, text, logCount>>,
         Pending(t)' => Pending(t) /\ Top(t)'.tag = Top(t).tag
  PROVE  LinesOK'
<1>1. \A u \in Threads : Pending(u)' => Pending(u) /\ Top(u)'.tag = Top(u).tag
  <2>1. \A u \in Threads \ {t} : (Pending(u)' <=> Pending(u)) /\ Top(u)' = Top(u)
    BY RestSame
  <2> QED BY <2>1
<1> QED BY <1>1 DEF LinesOK

LEMMA LinesStep ==
  ASSUME Types, LockOK, FileOK, LinesOK, [Next]_vars
  PROVE  LinesOK'
<1>0. /\ StackOK /\ dir \in Dirs /\ month \in Months /\ logCount \in Nat
      /\ text \in [Tags -> 0 .. logCount] /\ lost \subseteq 1 .. logCount
      /\ files \in [Names -> Seq(Nat)]
      /\ (\A n \in Names : FileLines(n)) /\ Distinct
  BY LinesParts DEF Types, TypeOK
<1>1. ASSUME NEW t \in Threads, Busy(t)
      PROVE  /\ Top(t) \in Frames /\ Top(t).tag \in Tags /\ Name(Top(t)) \in Names
             /\ NewName(Top(t)) \in Names
  BY <1>0, <1>1, StackShape DEF Frames, Name, NewName, Names
<1>2. \A n \in Names : n[2] \in Tags
  BY DEF Names
<1>3. ASSUME UNCHANGED <<stack, files, lost, text, logCount>> PROVE LinesOK'
  <2>1. \A u \in Threads : (Pending(u)' <=> Pending(u)) /\ Top(u)' = Top(u)
    BY <1>3 DEF Pending, Busy, Top
  <2> QED BY <1>3, <2>1 DEF LinesOK
<1>4. MonthPasses \/ (\E d \in Dirs : SetDirectory(d)) \/ (\E level \in Levels : SetLogLevel(level)) \/ UNCHANGED vars
        => UNCHANGED <<stack, files, lost, text, logCount>>
  BY DEF MonthPasses, SetDirectory, SetLogLevel, vars, diskVars, tagVars
<1>5. ASSUME NEW t \in Threads, Stamp(t) \/ Compare(t) \/ ReadClock(t) \/ SetMonth(t) \/ Create(t)
      PROVE  LinesOK'
  <2>1. Busy(t) /\ UNCHANGED <<files, lost, text, logCount>>
    BY <1>5 DEF Stamp, Compare, ReadClock, SetMonth, Create, IsAt, Busy, diskVars, tagVars
  <2>2. Top(t) \in Frames
    BY <1>1, <2>1
  <2>3. Rest(t) /\ Top(t)'.at \notin {"open", "write"}
    <3>1. CASE Stamp(t) \/ Compare(t) \/ ReadClock(t) \/ SetMonth(t)
      BY <1>0, <2>2, <3>1, MonthMoves, ZenonT(60) DEF Moves, To, Frames, AfterMonth
    <3>2. CASE Create(t)
      BY <1>0, <2>2, <3>2, MonthMoves, ZenonT(60) DEF Moves, To, OpenTo, Frames, AfterMonth
    <3> QED BY <1>5, <3>1, <3>2
  <2>4. ~ Pending(t)'
    BY <2>3 DEF Pending
  <2> QED BY <2>1, <2>3, <2>4, LinesKept
<1>6. ASSUME NEW t \in Threads, NEW g \in Tags, NEW m \in Messages, NEW level \in Levels,
             Call(t, g, m, level)
      PROVE  LinesOK'
  <2>1. Rest(t) /\ Top(t)' = Frame(g, m) /\ UNCHANGED <<files, lost, text, logCount>>
    BY <1>0, <1>6, CallMade DEF Call, diskVars, tagVars
  <2>2. ~ Pending(t)'
    BY <2>1, FrameMade DEF Pending
  <2> QED BY <2>1, <2>2, LinesKept
<1>7. ASSUME NEW t \in Threads, Enter(t) \/ Leave(t)
      PROVE  LinesOK'
  <2>1. Busy(t) /\ UNCHANGED <<files, lost, text, logCount>>
    BY <1>7 DEF Enter, EnterWhen, Leave, IsAt, Busy, diskVars, tagVars
  <2>2. Top(t) \in Frames
    BY <1>1, <2>1
  <2>3. CASE Enter(t)
    <3>1. Moves(t, To(t, AfterEnter(Top(t))))
      BY <1>0, <2>3, LineMoves
    <3>2. Rest(t) /\ Top(t)'.at \notin {"open", "write"}
      BY <2>2, <3>1 DEF Moves, To, Frames, AfterEnter
    <3>3. ~ Pending(t)'
      BY <3>2 DEF Pending
    <3> QED BY <2>1, <3>2, <3>3, LinesKept
  <2>4. CASE Leave(t)
    <3>1. Rest(t) /\ (Busy(t)' => Top(t)'.at = "format")
      BY <1>0, <2>1, <2>4, Returns, StackShape DEF Leave
    <3>2. ~ Pending(t)'
      BY <3>1 DEF Pending
    <3> QED BY <2>1, <3>1, <3>2, LinesKept
  <2> QED BY <1>7, <2>3, <2>4
<1>8. ASSUME NEW t \in Threads, Format(t)
      PROVE  LinesOK'
  <2>1. Busy(t) /\ Top(t).at = "format" /\ Top(t) \in Frames
    BY <1>1, <1>8 DEF Format, FormatOr, IsAt, Busy
  <2>0. PICK g \in Tags : g = Top(t).tag
    BY <1>1, <2>1
  <2>2. /\ text' = [text EXCEPT ![g] = logCount + 1] /\ logCount' = logCount + 1
        /\ UNCHANGED <<files, lost>>
    BY <1>8, <2>0 DEF Format, FormatOr, diskVars
  <2>3. Rest(t) /\ (Pending(t)' => Top(t)'.tag = g)
    <3>1. CASE Fits(Top(t))
      <4>1. Moves(t, To(t, "open"))
        BY <1>0, <1>8, <3>1, LineMoves
      <4> QED BY <2>0, <2>1, <4>1 DEF Moves, To, Frames
    <3>2. CASE ~ Fits(Top(t))
      <4>1. Grows(t)
        BY <1>0, <1>8, <3>2, FormatGrows
      <4> QED BY <2>0, <2>1, <4>1, FrameMade DEF Grows
    <3> QED BY <3>1, <3>2
  <2>4. \A u \in Threads \ {t} : Pending(u) => Top(u).tag # g /\ Top(u).tag \in Tags
    BY <2>0, <2>1, PendingOwns DEF LinePcs
  <2>5. ASSUME NEW n \in Names PROVE FileLines(n)'
    <3> SUFFICES ASSUME NEW i \in DOMAIN files[n]
                 PROVE  /\ files[n][1] = BOM /\ files[n][i] \notin lost
                        /\ files[n][i] <= logCount + 1
                        /\ \A j \in 1 .. i - 1 : files[n][j] < files[n][i]
                        /\ \A h \in Tags \ {n[2]} : files[n][i] = text'[h] => text'[h] = 0
      BY <2>2 DEF FileLines
    <3>1. /\ files[n][1] = BOM /\ files[n][i] \notin lost /\ files[n][i] <= logCount
          /\ \A j \in 1 .. i - 1 : files[n][j] < files[n][i]
          /\ \A h \in Tags \ {n[2]} : files[n][i] = text[h] => text[h] = 0
      BY <1>0 DEF FileLines
    <3>2. files[n][i] \in Nat
      BY <1>0
    <3>3. files[n][i] # logCount + 1 /\ files[n][i] <= logCount + 1
      BY <1>0, <3>1, <3>2
    <3> QED BY <1>0, <2>1, <2>2, <3>1, <3>3
  <2>6. Distinct'
    <3>1. \A h \in Tags : text[h] # logCount + 1
      BY <1>0
    <3> QED BY <1>0, <2>1, <2>2, <3>1 DEF Distinct
  <2>7. NewLine(g)'
    <3>1. text'[g] = logCount + 1 /\ logCount + 1 > 0 /\ logCount + 1 \notin lost
      BY <1>0, <2>1, <2>2
    <3>2. ASSUME NEW n \in Names, NEW i \in DOMAIN files[n] PROVE files[n][i] < logCount + 1
      <4>1. files[n][i] \in Nat /\ files[n][i] <= logCount
        BY <1>0 DEF FileLines
      <4> QED BY <1>0, <4>1
    <3> QED BY <2>2, <3>1, <3>2 DEF NewLine
  <2>8. ASSUME NEW u \in Threads, Pending(u)' PROVE NewLine(Top(u).tag)'
    <3>1. CASE u = t
      BY <2>3, <2>7, <2>8, <3>1 DEF NewLine
    <3>2. CASE u # t
      <4>1. Pending(u) /\ Top(u)' = Top(u) /\ Top(u).tag # g /\ Top(u).tag \in Tags
        BY <2>3, <2>4, <2>8, <3>2, RestSame
      <4>2. PICK h \in Tags : h = Top(u).tag /\ h # g
        BY <4>1
      <4>3. NewLine(h) /\ text'[h] = text[h]
        BY <1>0, <2>2, <4>1, <4>2, LinesParts
      <4>4. NewLine(h)'
        BY <2>2, <4>3 DEF NewLine
      <4> QED BY <4>1, <4>2, <4>4 DEF NewLine
    <3> QED BY <3>1, <3>2
  <2> QED BY <2>5, <2>6, <2>8 DEF LinesOK, FileLines, Distinct, NewLine
<1>9. ASSUME NEW t \in Threads, Open(t)
      PROVE  LinesOK'
  <2>1. Busy(t) /\ Top(t).at = "open" /\ Top(t) \in Frames /\ Top(t).tag \in Tags /\ Pending(t)
    BY <1>1, <1>9 DEF Open, IsAt, Busy, Pending
  <2> DEFINE n == FileHere(t, Top(t).stamp)
  <2>0. Name([Top(t) EXCEPT !.dir = dir, !.at = "write"]) = n
    BY <2>1 DEF Frames, Name, FileHere
  <2>2. CASE n \in made /\ openBy[n] = None
    <3>1. Moves(t, OpenTo(t, "write"))
      BY <1>0, <1>9, <2>2, LineMoves
    <3>2. UNCHANGED <<files, lost, text, logCount>>
      BY <1>9, <2>0, <2>2 DEF Open, tagVars
    <3>3. Rest(t) /\ Top(t)'.tag = Top(t).tag
      BY <2>1, <3>1 DEF Moves, OpenTo, Frames
    <3> QED BY <2>1, <3>2, <3>3, LinesKept
  <2>3. CASE ~ (n \in made /\ openBy[n] = None)
    <3>1. PICK g \in Tags : g = Top(t).tag
      BY <2>1
    <3>2. Moves(t, To(t, "leave"))
      BY <1>0, <1>9, <2>3, LineMoves
    <3>3. Rest(t) /\ ~ Pending(t)'
      BY <2>1, <3>2 DEF Moves, To, Frames, Pending
    <3>4. lost' = lost \cup {text[g]} /\ UNCHANGED <<files, text, logCount>>
      BY <1>9, <2>0, <2>3, <3>1 DEF Open, tagVars
    <3>5. NewLine(g) /\ text[g] \in Nat
      BY <1>0, <2>1, <3>1, LinesParts
    <3>6. ASSUME NEW o \in Names, NEW i \in DOMAIN files[o] PROVE files[o][i] # text[g]
      <4>1. files[o][i] \in Nat
        BY <1>0
      <4>2. CASE o[2] = g
        BY <3>5, <4>1, <4>2 DEF NewLine
      <4>3. CASE o[2] # g
        BY <1>0, <3>5, <4>3 DEF FileLines, NewLine
      <4> QED BY <4>2, <4>3
    <3>7. \A o \in Names : FileLines(o)'
      BY <1>0, <3>4, <3>6 DEF FileLines
    <3>8. ASSUME NEW u \in Threads, Pending(u)' PROVE NewLine(Top(u).tag)'
      <4>1. u # t
        BY <3>3, <3>8
      <4>2. Pending(u) /\ Top(u)' = Top(u)
        BY <3>3, <3>8, <4>1, RestSame
      <4>3. PICK h \in Tags : h = Top(u).tag /\ h # g
        BY <2>1, <3>1, <4>1, <4>2, PendingOwns DEF LinePcs
      <4>4. NewLine(h) /\ text[h] # text[g]
        BY <1>0, <3>5, <4>2, <4>3, LinesParts DEF Distinct, NewLine
      <4>5. NewLine(h)'
        BY <3>4, <4>4 DEF NewLine
      <4> QED BY <4>2, <4>3, <4>5 DEF NewLine
    <3>9. Distinct'
      BY <1>0, <3>4 DEF Distinct
    <3> QED BY <3>7, <3>8, <3>9 DEF LinesOK, FileLines, Distinct, NewLine
  <2> QED BY <2>2, <2>3
<1>10. ASSUME NEW t \in Threads, Write(t)
       PROVE  LinesOK'
  <2>1. Busy(t) /\ Top(t).at = "write" /\ Top(t) \in Frames /\ Pending(t) /\ IsAt(t, "write")
    BY <1>1, <1>10 DEF Write, IsAt, Busy, Pending
  <2>2. PICK n \in Names : n = Name(Top(t)) /\ n[2] = Top(t).tag
    BY <1>1, <2>1 DEF Name
  <2>3. PICK g \in Tags : g = Top(t).tag
    BY <1>1, <2>1
  <2>4. Moves(t, To(t, "leave"))
    BY <1>0, <1>10, LineMoves
  <2>5. Rest(t) /\ ~ Pending(t)'
    BY <2>1, <2>4 DEF Moves, To, Frames, Pending
  <2>6. /\ files' = [files EXCEPT ![n] = Append(files[n], text[g])]
        /\ UNCHANGED <<lost, text, logCount>>
    BY <1>10, <2>2, <2>3 DEF Write, tagVars
  <2>7. NewLine(g) /\ text[g] \in Nat /\ text[g] <= logCount
    BY <1>0, <2>1, <2>3, LinesParts
  <2>8. files[n] # <<>>
    <3>1. Using(t, n) /\ ~ Marking(t, n)
      BY <2>1, <2>2 DEF Using, Marking, IsAt
    <3> QED BY <3>1 DEF FileOK
  <2> DEFINE k == Len(files[n])
  <2>9. /\ k \in Nat \ {0} /\ DOMAIN files[n] = 1 .. k /\ DOMAIN files'[n] = 1 .. k + 1
        /\ \A i \in 1 .. k : files'[n][i] = files[n][i] /\ files[n][i] \in Nat
        /\ files'[n][k + 1] = text[g]
        /\ \A o \in Names \ {n} : files'[o] = files[o]
    <3>1. \A q \in Seq(Nat) : \A x \in Nat : q # <<>> =>
            /\ Len(q) \in Nat \ {0} /\ DOMAIN q = 1 .. Len(q)
            /\ DOMAIN Append(q, x) = 1 .. Len(q) + 1
            /\ (\A i \in 1 .. Len(q) : Append(q, x)[i] = q[i] /\ q[i] \in Nat)
            /\ Append(q, x)[Len(q) + 1] = x
      OBVIOUS
    <3>2. files'[n] = Append(files[n], text[g]) /\ \A o \in Names \ {n} : files'[o] = files[o]
      BY <1>0, <2>6
    <3> QED BY <1>0, <2>7, <2>8, <3>1, <3>2
  <2> HIDE DEF k
  <2>10. FileLines(n)'
    <3>1. \A i \in 1 .. k :
            /\ files[n][1] = BOM /\ files[n][i] \notin lost /\ files[n][i] <= logCount
            /\ \A j \in 1 .. i - 1 : files[n][j] < files[n][i]
            /\ \A h \in Tags \ {n[2]} : files[n][i] = text[h] => text[h] = 0
            /\ files[n][i] < text[g]
      <4>1. DOMAIN files[n] = 1 .. k /\ n[2] = g
        BY <1>0, <2>2, <2>3, <2>9
      <4>2. \A i \in 1 .. k : files[n][i] < text[g]
        BY <2>7, <4>1 DEF NewLine
      <4>3. FileLines(n)
        BY <1>0
      <4> QED BY <4>1, <4>2, <4>3 DEF FileLines
    <3>2. 1 \in 1 .. k /\ k + 1 - 1 = k /\ \A i \in 1 .. k + 1 : i \in 1 .. k \/ i = k + 1
      BY <2>9
    <3>3. \A i \in 1 .. k : \A j \in 1 .. i - 1 : j \in 1 .. k
      BY <2>9
    <3>4. files'[n][1] = BOM
      BY <2>9, <3>1, <3>2
    <3>5. ASSUME NEW i \in 1 .. k
          PROVE  /\ files'[n][i] \notin lost /\ files'[n][i] <= logCount
                 /\ \A j \in 1 .. i - 1 : files'[n][j] < files'[n][i]
                 /\ \A h \in Tags \ {n[2]} : files'[n][i] = text[h] => text[h] = 0
      BY <2>9, <3>1, <3>3, SMTT(30)
    <3>6. /\ files'[n][k + 1] \notin lost /\ files'[n][k + 1] <= logCount
          /\ \A j \in 1 .. k : files'[n][j] < files'[n][k + 1]
          /\ \A h \in Tags \ {n[2]} : files'[n][k + 1] = text[h] => text[h] = 0
      BY <1>0, <2>2, <2>3, <2>7, <2>9, <3>1 DEF NewLine, Distinct
    <3>7. DOMAIN files'[n] = 1 .. k + 1 /\ UNCHANGED <<lost, text, logCount>>
      BY <2>6, <2>9
    <3> QED BY ONLY <3>2, <3>4, <3>5, <3>6, <3>7 DEF FileLines
  <2>11. ASSUME NEW o \in Names, o # n PROVE FileLines(o)'
    BY <1>0, <2>6, <2>9, <2>11 DEF FileLines
  <2>12. ASSUME NEW u \in Threads, Pending(u)' PROVE NewLine(Top(u).tag)'
    <3>1. u # t
      BY <2>5, <2>12
    <3>2. Pending(u) /\ Top(u)' = Top(u)
      BY <2>5, <2>12, <3>1, RestSame
    <3>3. PICK h \in Tags : h = Top(u).tag /\ h # g
      BY <2>1, <2>3, <3>1, <3>2, PendingOwns DEF LinePcs
    <3>4. NewLine(h)
      BY <3>2, <3>3, LinesParts
    <3>5. NewLine(h)'
      BY <2>2, <2>3, <2>6, <2>9, <3>3, <3>4 DEF NewLine
    <3> QED BY <3>2, <3>3, <3>5 DEF NewLine
  <2>13. Distinct'
    BY <1>0, <2>6 DEF Distinct
  <2> QED BY <2>10, <2>11, <2>12, <2>13 DEF LinesOK, FileLines, Distinct, NewLine
<1>11. ASSUME NEW t \in Threads, WriteBOM(t)
       PROVE  LinesOK'
  <2>1. Busy(t) /\ Top(t).at = "bom" /\ Top(t) \in Frames
    BY <1>1, <1>11 DEF WriteBOM, IsAt, Busy
  <2>2. PICK n \in Names : n = NewName(Top(t))
    BY <1>1, <2>1
  <2>3. Moves(t, To(t, AfterMonth(Top(t))))
    BY <1>0, <1>11, MonthMoves
  <2>4. Rest(t) /\ ~ Pending(t)'
    BY <2>1, <2>3 DEF Moves, To, Frames, AfterMonth, Pending
  <2>5. UNCHANGED <<lost, text, logCount>>
    BY <1>11 DEF WriteBOM, tagVars
  <2>6. CASE files[n] # <<>>
    <3>1. files' = files
      BY <1>11, <2>2, <2>6 DEF WriteBOM
    <3> QED BY <2>4, <2>5, <3>1, LinesKept
  <2>7. CASE files[n] = <<>>
    <3>1. files' = [files EXCEPT ![n] = <<BOM>>]
      BY <1>11, <2>2, <2>7 DEF WriteBOM
    <3>2. /\ DOMAIN files'[n] = {1} /\ files'[n][1] = 0
          /\ \A o \in Names \ {n} : files'[o] = files[o]
      BY <1>0, <3>1 DEF BOM
    <3>3. FileLines(n)'
      <4>1. 0 \notin lost /\ 0 <= logCount
        BY <1>0
      <4> QED BY <2>5, <3>2, <4>1 DEF FileLines, BOM
    <3>4. \A o \in Names \ {n} : FileLines(o)'
      BY <1>0, <2>5, <3>2 DEF FileLines
    <3>5. ASSUME NEW u \in Threads, Pending(u)' PROVE NewLine(Top(u).tag)'
      <4>1. Pending(u) /\ Top(u)' = Top(u)
        BY <2>4, <3>5, RestSame
      <4>2. PICK h \in Tags : h = Top(u).tag
        BY <1>1, <4>1 DEF Pending
      <4>3. NewLine(h)
        BY <4>1, <4>2, LinesParts
      <4>4. NewLine(h)'
        BY <2>5, <3>2, <4>3 DEF NewLine
      <4> QED BY <4>1, <4>2, <4>4 DEF NewLine
    <3>6. Distinct'
      BY <1>0, <2>5 DEF Distinct
    <3> QED BY <3>3, <3>4, <3>5, <3>6 DEF LinesOK, FileLines, Distinct, NewLine
  <2> QED BY <2>6, <2>7
<1> QED
  BY <1>3, <1>4, <1>5, <1>6, <1>7, <1>8, <1>9, <1>10, <1>11, NextSplit

(***************************************************************************)
(* The buffers                                                             *)
(***************************************************************************)
AfterFormat == {"open", "write", "leave"}

LEMMA FitKept ==
  ASSUME FitOK, Types, NEW t \in Threads, Rest(t), StackOK',
         \A g \in Tags : bufLen'[g] \in Nat /\ bufLen'[g] >= bufLen[g],
         Busy(t)' /\ Top(t)'.at \in AfterFormat =>
           /\ Busy(t) /\ Top(t).at \in AfterFormat
           /\ Top(t)'.tag = Top(t).tag /\ Top(t)'.msg = Top(t).msg
  PROVE  FitOK'
<1> SUFFICES ASSUME NEW u \in Threads, Busy(u)', Top(u)'.at \in AfterFormat
             PROVE  LineLength(Top(u)') < bufLen'[Top(u)'.tag]
  BY DEF FitOK, LineLength, AfterFormat
<1>1. /\ Busy(u) /\ Top(u).at \in AfterFormat
      /\ Top(u)'.tag = Top(u).tag /\ Top(u)'.msg = Top(u).msg
  BY RestSame
<1>2. Top(u) \in Frames /\ Top(u).tag \in Tags
  BY <1>1, StackShape DEF Types, Frames
<1>3. LineLength(Top(u)) \in Nat
  <2>1. HeaderLen \in Nat /\ Top(u).msg.len \in Nat /\ Top(u).msg.bytes \in Nat
    BY <1>2, Constants DEF Frames
  <2> QED BY <2>1 DEF LineLength
<1>4. LineLength(Top(u)') = LineLength(Top(u))
  BY <1>1 DEF LineLength
<1>5. LineLength(Top(u)) < bufLen[Top(u).tag] /\ bufLen[Top(u).tag] \in Nat
  BY <1>1, <1>2 DEF FitOK, AfterFormat, Types, TypeOK
<1> QED BY <1>1, <1>2, <1>3, <1>4, <1>5

\* A line that passed the test of Log or LogHex has room for what is added to
\* it after the test.
LEMMA FitsEnough ==
  ASSUME Types, NEW f \in Frames, Fits(f)
  PROVE  LineLength(f) < bufLen[f.tag]
<1>1. /\ f.msg.kind \in {"log", "hex"} /\ f.msg.len \in Nat /\ f.msg.bytes \in Nat
      /\ HeaderLen \in Nat /\ bufLen[f.tag] \in Nat
  BY Constants DEF Frames, Types, TypeOK
<1>2. \A h, l, n, b, r \in Nat :
        /\ h + l + 2 < b => h + l + 1 < b
        /\ h + l < b /\ 16 * n + h + l <= b /\ n = 0 => h + l + (3 * n + 0) < b
        /\ 16 * n + h + l <= b /\ n > 0 => h + l + (3 * n + 1) < b /\ h + l + (3 * n + 0) < b
  OBVIOUS
<1>3. 0 % 16 = 0
  OBVIOUS
<1>4. CASE f.msg.kind = "log"
  BY <1>1, <1>2, <1>4 DEF Fits, LineLength
<1>5. CASE f.msg.kind # "log" /\ f.msg.bytes = 0
  BY <1>1, <1>2, <1>3, <1>5 DEF Fits, LineLength
<1>6. CASE f.msg.kind # "log" /\ f.msg.bytes > 0
  BY <1>1, <1>2, <1>6 DEF Fits, LineLength
<1> QED BY <1>1, <1>4, <1>5, <1>6

LEMMA FitStep ==
  ASSUME Types, FitOK, [Next]_vars
  PROVE  FitOK'
<1>0. /\ StackOK /\ StackOK' /\ dir \in Dirs /\ month \in Months /\ bufLen \in [Tags -> Nat]
      /\ \A g \in Tags : bufLen[g] \in Nat /\ bufLen[g] >= bufLen[g]
  BY StackStep DEF Types, TypeOK
<1>1. ASSUME NEW t \in Threads, Busy(t)
      PROVE  Top(t) \in Frames /\ Top(t).tag \in Tags
  BY <1>0, <1>1, StackShape DEF Frames
<1>2. ASSUME UNCHANGED <<stack, bufLen>> PROVE FitOK'
  BY <1>2 DEF FitOK, Busy, Top, LineLength
<1>3. MonthPasses \/ (\E d \in Dirs : SetDirectory(d)) \/ (\E level \in Levels : SetLogLevel(level)) \/ UNCHANGED vars
        => UNCHANGED <<stack, bufLen>>
  BY DEF MonthPasses, SetDirectory, SetLogLevel, vars, tagVars
<1>4. ASSUME NEW t \in Threads,
             Stamp(t) \/ Compare(t) \/ ReadClock(t) \/ SetMonth(t) \/ Create(t) \/ WriteBOM(t)
      PROVE  FitOK'
  <2>1. Busy(t) /\ bufLen' = bufLen
    BY <1>4 DEF Stamp, Compare, ReadClock, SetMonth, Create, WriteBOM, IsAt, Busy, tagVars
  <2>2. Rest(t) /\ Top(t)'.at \notin AfterFormat
    <3>1. Top(t) \in Frames
      BY <1>1, <2>1
    <3>2. CASE Stamp(t) \/ Compare(t) \/ ReadClock(t) \/ SetMonth(t)
      BY <1>0, <3>1, <3>2, MonthMoves, ZenonT(60) DEF Moves, To, Frames, AfterMonth, AfterFormat
    <3>3. CASE Create(t) \/ WriteBOM(t)
      BY <1>0, <3>1, <3>3, MonthMoves, ZenonT(60)
         DEF Moves, To, OpenTo, Frames, AfterMonth, AfterFormat
    <3> QED BY <1>4, <3>2, <3>3
  <2> QED BY <1>0, <2>1, <2>2, FitKept
<1>5. ASSUME NEW t \in Threads, NEW g \in Tags, NEW m \in Messages, NEW level \in Levels,
             Call(t, g, m, level)
      PROVE  FitOK'
  <2>1. Rest(t) /\ Top(t)' = Frame(g, m) /\ bufLen' = bufLen
    BY <1>0, <1>5, CallMade DEF Call, tagVars
  <2>2. Top(t)'.at \notin AfterFormat
    BY <2>1, FrameMade DEF AfterFormat
  <2> QED BY <1>0, <2>1, <2>2, FitKept
<1>6. ASSUME NEW t \in Threads, Enter(t) PROVE FitOK'
  <2>1. Busy(t) /\ bufLen' = bufLen
    BY <1>6 DEF Enter, EnterWhen, IsAt, Busy, tagVars
  <2>2. Moves(t, To(t, AfterEnter(Top(t))))
    BY <1>0, <1>6, LineMoves
  <2>3. Rest(t) /\ Top(t)'.at \notin AfterFormat
    BY <1>1, <2>1, <2>2 DEF Moves, To, Frames, AfterEnter, AfterFormat
  <2> QED BY <1>0, <2>1, <2>3, FitKept
<1>7. ASSUME NEW t \in Threads, Leave(t) PROVE FitOK'
  <2>1. Busy(t) /\ bufLen' = bufLen
    BY <1>7 DEF Leave, IsAt, Busy, tagVars
  <2>2. Rest(t) /\ (Busy(t)' => Top(t)'.at = "format")
    BY <1>0, <1>7, <2>1, Returns, StackShape DEF Leave
  <2>3. Busy(t)' => Top(t)'.at \notin AfterFormat
    BY <2>2 DEF AfterFormat
  <2> QED BY <1>0, <2>1, <2>2, <2>3, FitKept
<1>8. ASSUME NEW t \in Threads, Open(t) \/ Write(t) PROVE FitOK'
  <2>1. Busy(t) /\ Top(t).at \in AfterFormat /\ bufLen' = bufLen
    BY <1>8 DEF Open, Write, IsAt, Busy, tagVars, AfterFormat
  <2>2. Top(t) \in Frames
    BY <1>1, <2>1
  <2>3. PICK l : Moves(t, To(t, l)) \/ Moves(t, OpenTo(t, l))
    BY <1>0, <1>8, LineMoves
  <2>4. Rest(t) /\ Top(t)'.tag = Top(t).tag /\ Top(t)'.msg = Top(t).msg
    BY <2>2, <2>3 DEF Moves, To, OpenTo, Frames
  <2> QED BY <1>0, <2>1, <2>4, FitKept
<1>9. ASSUME NEW t \in Threads, Format(t), Fits(Top(t)) PROVE FitOK'
  <2>1. Busy(t) /\ bufLen' = bufLen
    BY <1>9 DEF Format, FormatOr, IsAt, Busy
  <2>2. Top(t) \in Frames
    BY <1>1, <2>1
  <2>3. Moves(t, To(t, "open"))
    BY <1>0, <1>9, LineMoves
  <2>4. Rest(t) /\ Top(t)'.tag = Top(t).tag /\ Top(t)'.msg = Top(t).msg
    BY <2>2, <2>3 DEF Moves, To, Frames
  <2>5. LineLength(Top(t)) < bufLen[Top(t).tag]
    BY <1>9, <2>2, FitsEnough
  <2> SUFFICES ASSUME NEW u \in Threads, Busy(u)', Top(u)'.at \in AfterFormat
               PROVE  LineLength(Top(u)') < bufLen'[Top(u)'.tag]
    BY DEF FitOK, LineLength, AfterFormat
  <2>6. CASE u = t
    BY <2>1, <2>4, <2>5, <2>6 DEF LineLength
  <2>7. CASE u # t
    <3>1. Busy(u) /\ Top(u)' = Top(u)
      BY <2>4, <2>7, RestSame
    <3>2. LineLength(Top(u)') = LineLength(Top(u))
      BY <3>1
    <3> QED BY <2>1, <3>1, <3>2 DEF FitOK, AfterFormat
  <2> QED BY <2>6, <2>7
<1>10. ASSUME NEW t \in Threads, Format(t), ~ Fits(Top(t)) PROVE FitOK'
  <2>1. Grows(t) /\ bufLen' = [bufLen EXCEPT ![Top(t).tag] = 2 * bufLen[Top(t).tag]]
    BY <1>0, <1>10, FormatGrows
  <2>2. Rest(t) /\ Busy(t) /\ Top(t).tag \in Tags
    BY <1>1, <2>1 DEF Grows
  <2>3. Top(t)'.at \notin AfterFormat
    BY <2>1, <2>2, FrameMade DEF Grows, AfterFormat
  <2>4. \A g \in Tags : bufLen'[g] \in Nat /\ bufLen'[g] >= bufLen[g]
    BY <1>0, <2>1, <2>2
  <2> QED BY <1>0, <2>2, <2>3, <2>4, FitKept
<1> QED
  BY <1>2, <1>3, <1>4, <1>5, <1>6, <1>7, <1>8, <1>9, <1>10, NextSplit

(***************************************************************************)
(* The months                                                              *)
(***************************************************************************)
LEMMA WmonthFirst ==
  ASSUME NEW m \in Months, m < YearLen
  PROVE  Wmonth(m) = m + 1
<1>1. m \in Nat /\ YearLen \in Nat
  BY Constants DEF Months
<1>2. \A i, j \in Nat : i < j => i % j = i
  OBVIOUS
<1> QED BY <1>1, <1>2 DEF Wmonth

\* what was cared for still is
CareKept == \A g \in Tags, m \in Months : Cared(g, m) => Cared(g, m)'

LEMMA CareStays ==
  ASSUME NEW t \in Threads, Rest(t), refused \subseteq refused', made \subseteq made',
         \A g \in Tags, m \in Months : Making(t, g, m) => Tried(g, m)' \/ Making(t, g, m)'
  PROVE  CareKept
<1> SUFFICES ASSUME NEW g \in Tags, NEW m \in Months, Cared(g, m) PROVE Cared(g, m)'
  BY DEF CareKept
<1>1. CASE Tried(g, m)
  BY <1>1 DEF Cared, Tried
<1>2. CASE \E u \in Threads : Making(u, g, m)
  <2>1. PICK u \in Threads : Making(u, g, m)
    BY <1>2
  <2>2. CASE u = t
    BY <2>1, <2>2 DEF Cared
  <2>3. CASE u # t
    <3>1. Making(u, g, m)'
      BY <2>1, <2>3, RestSame
    <3> QED BY <3>1 DEF Cared
  <2> QED BY <2>2, <2>3
<1> QED BY <1>1, <1>2 DEF Cared

LEMMA CareLeft ==
  ASSUME NEW t \in Threads, Rest(t), refused \subseteq refused', made \subseteq made',
         Busy(t) => Top(t).at # "create"
  PROVE  CareKept
<1>1. \A g \in Tags, m \in Months : ~ Making(t, g, m)
  BY DEF Making, IsAt, Busy
<1> QED BY <1>1, CareStays

LEMMA FrameStays ==
  ASSUME CareKept, month \in Nat, month' \in Nat, month <= month', NEW f \in Frames, FrameOK(f)
  PROVE  FrameOK(f)'
<1>1. f.tag \in Tags /\ f.stamp \in Months /\ f.now \in Months /\ f.stamp \in Nat /\ f.now \in Nat
  BY DEF Frames, Months
<1>2. f.stamp <= month' /\ f.now <= month' /\ (f.at = "month" => f.stamp <= f.now)
  BY <1>1 DEF FrameOK
<1>3. PastMonth(f) => f.now > f.stamp \/ Cared(f.tag, f.stamp)'
  BY <1>1 DEF FrameOK, CareKept
<1> QED BY <1>2, <1>3 DEF FrameOK, PastMonth

\* A call that went on and is no further than it was.
LEMMA FrameGoes ==
  ASSUME CareKept, month' = month, NEW e \in Frames, FrameOK(e), NEW f \in Frames,
         f.stamp = e.stamp, f.now = e.now, f.tag = e.tag, f.at # "month",
         PastMonth(f) => PastMonth(e)
  PROVE  FrameOK(f)'
<1>1. f.tag \in Tags /\ f.stamp \in Months
  BY DEF Frames
<1>2. f.stamp <= month' /\ f.now <= month'
  BY DEF FrameOK
<1>3. PastMonth(f) => f.now > f.stamp \/ Cared(f.tag, f.stamp)'
  BY <1>1 DEF FrameOK, CareKept
<1> QED BY <1>2, <1>3 DEF FrameOK, PastMonth

LEMMA FramesBelow ==
  ASSUME StackOK, CareKept, month \in Nat, month' \in Nat, month <= month', NEW u \in Threads,
         FramesOK(u), NEW i \in 1 .. Height(u), stack'[u][i] = stack[u][i]
  PROVE  FrameOK(stack[u][i])'
<1>1. PICK f \in Frames : f = stack[u][i]
  BY DEF StackOK, Height
<1>2. FrameOK(f)
  BY <1>1 DEF FramesOK
<1>3. FrameOK(f)'
  BY <1>2, FrameStays
<1> QED BY <1>1, <1>3 DEF FrameOK, PastMonth

LEMMA FramesLeft ==
  ASSUME StackOK, CareKept, month \in Nat, month' \in Nat, month <= month', NEW u \in Threads,
         FramesOK(u), stack'[u] = stack[u]
  PROVE  FramesOK(u)'
<1>1. Height(u)' = Height(u)
  BY DEF Height
<1>2. ASSUME NEW i \in 1 .. Height(u) PROVE FrameOK(stack[u][i])'
  BY FramesBelow
<1> QED BY <1>1, <1>2 DEF FramesOK

LEMMA FramesMove ==
  ASSUME StackOK, CareKept, month \in Nat, month' = month, NEW t \in Threads, FramesOK(t),
         NEW f, Moves(t, f), FrameOK(f)'
  PROVE  FramesOK(t)'
<1>1. /\ Height(t) \in Nat \ {0} /\ Height(t)' = Height(t)
      /\ \A i \in 1 .. Height(t) - 1 : stack'[t][i] = stack[t][i]
  BY StackShape DEF Moves
<1>2. stack'[t][Height(t)] = f
  BY <1>1 DEF Moves, Top, Height
<1>3. ASSUME NEW i \in 1 .. Height(t) PROVE FrameOK(stack[t][i])'
  <2>1. CASE i = Height(t)
    BY <1>2, <2>1 DEF FrameOK, PastMonth
  <2>2. CASE i # Height(t)
    <3>1. i \in 1 .. Height(t) - 1
      BY <1>1, <2>2
    <3> QED BY <1>1, <3>1, FramesBelow
  <2> QED BY <2>1, <2>2
<1> QED BY <1>1, <1>3 DEF FramesOK

\* a step that leaves the months of the tags as they are
LEMMA MonthKept ==
  ASSUME Types, MonthOK, month < YearLen, month' = month, tagMonth' = tagMonth, CareKept,
         NEW t \in Threads, Rest(t), FramesOK(t)'
  PROVE  MonthOK'
<1>1. StackOK /\ month \in Nat
  BY DEF Types, TypeOK, Months
<1>2. ASSUME NEW u \in Threads PROVE FramesOK(u)'
  <2>1. CASE u # t
    <3>1. stack'[u] = stack[u] /\ FramesOK(u)
      BY <2>1 DEF Rest, MonthOK
    <3> QED BY <1>1, <3>1, FramesLeft
  <2> QED BY <2>1
<1>3. ASSUME NEW g \in Tags PROVE TagOK(g)'
  BY DEF MonthOK, TagOK, CareKept
<1> QED BY <1>2, <1>3 DEF MonthOK

LEMMA MonthStep ==
  ASSUME Types, FileOK, MonthOK, [Next]_vars
  PROVE  MonthOK'
<1>0. /\ StackOK /\ dir \in Dirs /\ month \in Months /\ month \in Nat
      /\ tagMonth \in [Tags -> 0 .. YearLen] /\ YearLen \in Nat
      /\ openBy \in [Names -> Threads \cup {None}]
  BY Constants DEF Types, TypeOK, Months
<1>1. month' = month \/ month' = month + 1
  BY DEF Next, Step, MonthPasses, SetDirectory, SetLogLevel, Stamp, Compare, ReadClock, SetMonth,
         Create, WriteBOM, Enter, EnterWhen, Format, FormatOr, Open, Write, Leave, Call, vars
<1> SUFFICES ASSUME month < YearLen PROVE MonthOK'
  BY <1>0, <1>1 DEF MonthOK
<1>2. (\A g \in Tags : TagOK(g)) /\ (\A t \in Threads : FramesOK(t))
  BY DEF MonthOK
<1>3. ASSUME NEW t \in Threads, Busy(t)
      PROVE  /\ Top(t) \in Frames /\ Top(t).tag \in Tags /\ Top(t).msg.kind \in {"log", "hex"}
             /\ Top(t).stamp \in Months /\ Top(t).now \in Months
             /\ Height(t) \in Nat \ {0} /\ FrameOK(Top(t))
  <2>1. Top(t) \in Frames /\ Height(t) \in Nat \ {0} /\ Top(t) = stack[t][Height(t)]
    BY <1>0, <1>3, StackShape
  <2>2. Height(t) \in 1 .. Height(t)
    BY <2>1
  <2>3. FrameOK(Top(t))
    BY <1>2, <2>1, <2>2 DEF FramesOK
  <2> QED BY <2>1, <2>3, Constants DEF Frames
<1>4. ASSUME UNCHANGED <<stack, month, tagMonth, made, refused>> PROVE MonthOK'
  <2>1. \A g \in Tags, m \in Months : Cared(g, m)' <=> Cared(g, m)
    BY <1>4 DEF Cared, Tried, Making, IsAt, Top
  <2>2. CareKept /\ month' \in Nat /\ month <= month' /\ month' = month
    BY <1>0, <1>4, <2>1 DEF CareKept
  <2>3. \A t \in Threads : FramesOK(t)'
    BY <1>0, <1>2, <1>4, <2>2, FramesLeft
  <2>4. \A g \in Tags : TagOK(g)'
    BY <1>2, <1>4, <2>1 DEF TagOK
  <2> QED BY <2>3, <2>4 DEF MonthOK
<1>5. CASE MonthPasses
  <2>1. UNCHANGED <<stack, tagMonth, made, refused>> /\ month' = month + 1
    BY <1>5 DEF MonthPasses, diskVars, tagVars
  <2>2. \A g \in Tags, m \in Months : Cared(g, m)' <=> Cared(g, m)
    BY <2>1 DEF Cared, Tried, Making, IsAt, Top
  <2>3. CareKept /\ month' \in Nat /\ month <= month'
    BY <1>0, <2>1, <2>2 DEF CareKept
  <2>4. \A t \in Threads : FramesOK(t)'
    BY <1>0, <1>2, <2>1, <2>3, FramesLeft
  <2>5. \A g \in Tags : TagOK(g)'
    BY <1>2, <2>1, <2>2 DEF TagOK
  <2> QED BY <2>4, <2>5 DEF MonthOK
<1>6. (\E d \in Dirs : SetDirectory(d)) \/ (\E level \in Levels : SetLogLevel(level)) \/ UNCHANGED vars
        => UNCHANGED <<stack, month, tagMonth, made, refused>>
  BY DEF SetDirectory, SetLogLevel, vars, diskVars, tagVars
<1>7. ASSUME NEW t \in Threads, Stamp(t) \/ Compare(t) \/ ReadClock(t) PROVE MonthOK'
  <2>1. /\ Busy(t) /\ Top(t).at \notin {"create", "month"}
        /\ month' = month /\ tagMonth' = tagMonth /\ made' = made /\ refused' = refused
    BY <1>7 DEF Stamp, Compare, ReadClock, IsAt, Busy, diskVars, tagVars
  <2>2. PICK e \in Frames : /\ e = Top(t) /\ FrameOK(e) /\ e.tag \in Tags /\ e.stamp \in Months
                            /\ e.now \in Months
    BY <1>3, <2>1
  <2>3. e.stamp <= month /\ e.now <= month /\ e.stamp \in Nat /\ e.now \in Nat
    BY <2>2 DEF FrameOK, Months
  <2>4. ASSUME Rest(t) PROVE CareKept
    BY <2>1, <2>4, CareLeft
  <2>5. CASE Stamp(t)
    <3>1. PICK f : f = [e EXCEPT !.stamp = month, !.at = "compare"]
      OBVIOUS
    <3>2. Moves(t, f) /\ Rest(t)
      BY <1>0, <2>2, <2>5, <3>1, MonthMoves DEF Moves
    <3>3. f.stamp = month /\ f.now = e.now /\ f.at = "compare"
      BY <2>2, <3>1 DEF Frames
    <3>4. FrameOK(f)'
      BY <1>0, <2>1, <2>3, <3>3 DEF FrameOK, PastMonth, LinePcs
    <3>5. FramesOK(t)'
      BY <1>0, <1>2, <2>1, <2>4, <3>2, <3>4, FramesMove
    <3> QED BY <2>1, <2>4, <3>2, <3>5, MonthKept
  <2>6. CASE ReadClock(t)
    <3>1. PICK f : f = [e EXCEPT !.now = month, !.at = "month"]
      OBVIOUS
    <3>2. Moves(t, f) /\ Rest(t)
      BY <1>0, <2>2, <2>6, <3>1, MonthMoves DEF Moves
    <3>3. f.stamp = e.stamp /\ f.now = month /\ f.at = "month"
      BY <2>2, <3>1 DEF Frames
    <3>4. FrameOK(f)'
      BY <1>0, <2>1, <2>3, <3>3 DEF FrameOK, PastMonth, LinePcs
    <3>5. FramesOK(t)'
      BY <1>0, <1>2, <2>1, <2>4, <3>2, <3>4, FramesMove
    <3> QED BY <2>1, <2>4, <3>2, <3>5, MonthKept
  <2>7. CASE Compare(t)
    <3>1. PICK l : l = IF Wmonth(e.stamp) # tagMonth[e.tag] THEN "clock" ELSE AfterMonth(e)
      OBVIOUS
    <3>2. PICK f : f = [e EXCEPT !.at = l]
      OBVIOUS
    <3>3. Moves(t, f) /\ Rest(t)
      BY <1>0, <2>2, <2>7, <3>1, <3>2, MonthMoves DEF Moves, To
    <3>4. /\ f.stamp = e.stamp /\ f.now = e.now /\ f.tag = e.tag /\ f.at = l /\ l # "month"
      BY <2>2, <3>1, <3>2 DEF Frames, AfterMonth
    <3>5. PastMonth(f) => Cared(e.tag, e.stamp)
      <4>1. CASE l = "clock"
        BY <3>4, <4>1 DEF PastMonth, LinePcs
      <4>2. CASE Wmonth(e.stamp) = tagMonth[e.tag]
        <5>1. e.stamp < YearLen
          BY <1>0, <2>3
        <5>2. tagMonth[e.tag] = e.stamp + 1
          BY <2>2, <4>2, <5>1, WmonthFirst
        <5> QED BY <1>2, <2>2, <5>2 DEF TagOK
      <4> QED BY <3>1, <4>1, <4>2
    <3>6. PastMonth(f) => Cared(f.tag, f.stamp)'
      BY <2>2, <2>4, <3>3, <3>4, <3>5 DEF CareKept
    <3>7. FrameOK(f)'
      BY <2>1, <2>3, <3>4, <3>6 DEF FrameOK, PastMonth
    <3>8. FramesOK(t)'
      BY <1>0, <1>2, <2>1, <2>4, <3>3, <3>7, FramesMove
    <3> QED BY <2>1, <2>4, <3>3, <3>8, MonthKept
  <2> QED BY <1>7, <2>5, <2>6, <2>7
<1>8. ASSUME NEW t \in Threads, SetMonth(t) PROVE MonthOK'
  <2>1. Busy(t) /\ Top(t).at = "month"
    BY <1>8 DEF SetMonth, IsAt, Busy
  <2>2. PICK e \in Frames : /\ e = Top(t) /\ FrameOK(e) /\ e.tag \in Tags /\ e.stamp \in Months
                            /\ e.now \in Months /\ e.at = "month"
    BY <1>3, <2>1
  <2>3. /\ e.stamp <= month /\ e.now <= month /\ e.stamp <= e.now
        /\ e.stamp \in Nat /\ e.now \in Nat
    BY <2>2 DEF FrameOK, Months
  <2>4. PICK g \in Tags : g = e.tag
    BY <2>2
  <2>5. /\ tagMonth' = [tagMonth EXCEPT ![g] = e.now + 1]
        /\ month' = month /\ made' = made /\ refused' = refused
    <3>1. Wmonth(e.now) = e.now + 1
      BY <1>0, <2>2, <2>3, WmonthFirst
    <3> QED BY <1>8, <2>2, <2>4, <3>1 DEF SetMonth, diskVars
  <2>6. PICK f : f = [e EXCEPT !.at = "create"]
    OBVIOUS
  <2>7. Moves(t, f) /\ Rest(t) /\ Busy(t)' /\ Top(t)' = f
    BY <1>0, <1>8, <2>2, <2>6, MonthMoves DEF Moves, To
  <2>8. f.stamp = e.stamp /\ f.now = e.now /\ f.tag = g /\ f.at = "create"
    BY <2>2, <2>4, <2>6 DEF Frames
  <2>9. CareKept
    BY <2>1, <2>5, <2>7, CareLeft
  <2>10. Cared(g, e.now)'
    <3>1. Making(t, g, e.now)'
      BY <2>7, <2>8 DEF Making, IsAt, Busy
    <3> QED BY <3>1 DEF Cared
  <2>11. FrameOK(f)'
    <3>1. e.now > e.stamp \/ e.now = e.stamp
      BY <2>3
    <3>2. f.now > f.stamp \/ Cared(f.tag, f.stamp)'
      BY <2>8, <2>10, <3>1
    <3> QED BY <2>3, <2>5, <2>8, <3>2 DEF FrameOK, PastMonth
  <2>12. FramesOK(t)'
    BY <1>0, <1>2, <2>5, <2>7, <2>9, <2>11, FramesMove
  <2>13. ASSUME NEW u \in Threads PROVE FramesOK(u)'
    <3>1. CASE u # t
      <4>1. stack'[u] = stack[u] /\ FramesOK(u) /\ month' \in Nat /\ month <= month'
        BY <1>0, <1>2, <2>5, <2>7, <3>1 DEF Rest
      <4> QED BY <1>0, <2>9, <4>1, FramesLeft
    <3> QED BY <2>12, <3>1
  <2>14. ASSUME NEW h \in Tags, NEW m \in Months, tagMonth'[h] = m + 1 PROVE Cared(h, m)'
    <3>1. CASE h = g
      <4>1. e.now + 1 = m + 1 /\ m \in Nat
        BY <1>0, <2>5, <2>14, <3>1 DEF Months
      <4>2. e.now = m
        BY <2>3, <4>1
      <4> QED BY <2>10, <3>1, <4>2
    <3>2. CASE h # g
      <4>1. tagMonth[h] = m + 1
        BY <1>0, <2>5, <2>14, <3>2
      <4> QED BY <1>2, <2>9, <4>1 DEF TagOK, CareKept
    <3> QED BY <3>1, <3>2
  <2> QED BY <2>13, <2>14 DEF MonthOK, TagOK
<1>9. ASSUME NEW t \in Threads, Create(t) PROVE MonthOK'
  <2>1. Busy(t) /\ Top(t).at = "create"
    BY <1>9 DEF Create, IsAt, Busy
  <2>2. PICK e \in Frames : /\ e = Top(t) /\ FrameOK(e) /\ e.tag \in Tags /\ e.stamp \in Months
                            /\ e.now \in Months /\ e.at = "create"
    BY <1>3, <2>1
  <2>3. PICK g \in Tags, n \in Names : g = e.tag /\ n = <<dir, g, e.now>>
    BY <1>0, <2>2 DEF Names
  <2>4. /\ tagMonth' = tagMonth /\ month' = month
        /\ made \subseteq made' /\ refused \subseteq refused'
    BY <1>9 DEF Create, tagVars
  <2>5. PICK f : Moves(t, f) /\ f.stamp = e.stamp /\ f.now = e.now /\ f.tag = e.tag /\ f.at # "month"
    <3>1. /\ OpenTo(t, "bom").stamp = e.stamp /\ OpenTo(t, "bom").now = e.now
          /\ OpenTo(t, "bom").tag = e.tag /\ OpenTo(t, "bom").at = "bom"
      BY <2>2 DEF OpenTo, Frames
    <3>2. /\ To(t, AfterMonth(Top(t))).stamp = e.stamp /\ To(t, AfterMonth(Top(t))).now = e.now
          /\ To(t, AfterMonth(Top(t))).tag = e.tag /\ To(t, AfterMonth(Top(t))).at # "month"
      BY <2>2 DEF To, Frames, AfterMonth
    <3>3. Moves(t, OpenTo(t, "bom")) \/ Moves(t, To(t, AfterMonth(Top(t))))
      BY <1>0, <1>9, MonthMoves
    <3> QED BY <3>1, <3>2, <3>3
  <2>6. Rest(t) /\ f \in Frames
    BY <2>5 DEF Moves
  <2>7. Tried(g, e.now)'
    <3>1. CASE <<dir, e.now>> \notin folders
      <4>1. <<g, e.now>> \in refused'
        BY <1>9, <2>2, <2>3, <3>1 DEF Create
      <4> QED BY <4>1 DEF Tried
    <3>2. CASE <<dir, e.now>> \in folders /\ openBy[n] = None
      <4>1. n \in made'
        BY <1>9, <2>2, <2>3, <3>2 DEF Create, NewName
      <4> QED BY <1>0, <2>3, <4>1 DEF Tried
    <3>3. CASE openBy[n] # None
      <4>1. PICK u \in Threads : openBy[n] = u
        BY <1>0, <3>3
      <4>2. Using(u, n)
        BY <4>1 DEF FileOK
      <4>3. n \in made'
        BY <2>4, <4>2 DEF FileOK
      <4> QED BY <1>0, <2>3, <4>3 DEF Tried
    <3> QED BY <3>1, <3>2, <3>3
  <2>8. CareKept
    <3>1. \A h \in Tags, m \in Months : Making(t, h, m) => h = g /\ m = e.now
      BY <2>2, <2>3 DEF Making
    <3>2. \A h \in Tags, m \in Months : Making(t, h, m) => Tried(h, m)' \/ Making(t, h, m)'
      BY <2>7, <3>1
    <3> QED BY <2>4, <2>6, <3>2, CareStays
  <2>9. FrameOK(f)'
    <3>1. PastMonth(e)
      BY <2>2 DEF PastMonth
    <3> QED BY <2>2, <2>4, <2>5, <2>6, <2>8, <3>1, FrameGoes
  <2>10. FramesOK(t)'
    BY <1>0, <1>2, <2>4, <2>5, <2>8, <2>9, FramesMove
  <2> QED BY <2>4, <2>6, <2>8, <2>10, MonthKept
<1>10. ASSUME NEW t \in Threads,
              WriteBOM(t) \/ Enter(t) \/ Open(t) \/ Write(t) \/ (Format(t) /\ Fits(Top(t)))
       PROVE  MonthOK'
  <2>1. /\ Busy(t) /\ Top(t).at # "create"
        /\ month' = month /\ tagMonth' = tagMonth /\ made' = made /\ refused' = refused
        /\ Top(t).at \in LinePcs \cup {"bom", "enter"}
    BY <1>10 DEF WriteBOM, Enter, EnterWhen, Open, Write, Format, FormatOr, IsAt, Busy,
                 diskVars, tagVars, LinePcs
  <2>2. PICK e \in Frames : e = Top(t) /\ FrameOK(e) /\ e.msg.kind \in {"log", "hex"}
    BY <1>3, <2>1
  <2>3. PICK l : /\ Moves(t, To(t, l)) \/ Moves(t, OpenTo(t, l))
                 /\ (e.at = "enter" => l = AfterEnter(e)) /\ l # "month"
    <3>1. CASE WriteBOM(t)
      BY <1>0, <2>2, <3>1, MonthMoves DEF WriteBOM, IsAt, AfterMonth
    <3>2. CASE Enter(t)
      BY <1>0, <2>2, <3>2, LineMoves DEF AfterEnter
    <3>3. CASE Open(t)
      BY <1>0, <2>2, <3>3, LineMoves DEF Open, IsAt
    <3>4. CASE Write(t)
      BY <1>0, <2>2, <3>4, LineMoves DEF Write, IsAt
    <3>5. CASE Format(t) /\ Fits(Top(t))
      BY <1>0, <2>2, <3>5, LineMoves DEF Format, FormatOr, IsAt
    <3> QED BY <1>10, <3>1, <3>2, <3>3, <3>4, <3>5
  <2>4. PICK f : /\ Moves(t, f) /\ f.stamp = e.stamp /\ f.now = e.now /\ f.tag = e.tag
                 /\ f.msg = e.msg /\ f.at = l
    <3>1. /\ OpenTo(t, l).stamp = e.stamp /\ OpenTo(t, l).now = e.now
          /\ OpenTo(t, l).tag = e.tag /\ OpenTo(t, l).msg = e.msg /\ OpenTo(t, l).at = l
      BY <2>2 DEF OpenTo, Frames
    <3>2. /\ To(t, l).stamp = e.stamp /\ To(t, l).now = e.now
          /\ To(t, l).tag = e.tag /\ To(t, l).msg = e.msg /\ To(t, l).at = l
      BY <2>2 DEF To, Frames
    <3> QED BY <2>3, <3>1, <3>2
  <2>5. Rest(t) /\ f \in Frames
    BY <2>4 DEF Moves
  <2>6. CareKept
    BY <2>1, <2>5, CareLeft
  <2>7. PastMonth(f) => PastMonth(e)
    <3>1. CASE e.at # "enter"
      BY <2>1, <2>2, <3>1 DEF PastMonth
    <3>2. CASE e.at = "enter"
      BY <2>2, <2>3, <2>4, <3>2 DEF PastMonth, AfterEnter, LinePcs
    <3> QED BY <3>1, <3>2
  <2>8. FrameOK(f)'
    BY <2>1, <2>2, <2>3, <2>4, <2>5, <2>6, <2>7, FrameGoes
  <2>9. FramesOK(t)'
    BY <1>0, <1>2, <2>1, <2>4, <2>6, <2>8, FramesMove
  <2> QED BY <2>1, <2>5, <2>6, <2>9, MonthKept
<1>11. ASSUME NEW t \in Threads, Leave(t) PROVE MonthOK'
  <2>1. /\ Busy(t) /\ Top(t).at = "leave" /\ Return(t)
        /\ month' = month /\ tagMonth' = tagMonth /\ made' = made /\ refused' = refused
    BY <1>11 DEF Leave, IsAt, Busy, diskVars, tagVars
  <2>2. /\ Height(t) \in Nat \ {0} /\ Height(t)' = Height(t) - 1 /\ Rest(t)
        /\ \A i \in 1 .. Height(t) - 1 : stack'[t][i] = stack[t][i]
    BY <1>0, <1>3, <2>1, Returns
  <2>3. CareKept
    BY <2>1, <2>2, CareLeft
  <2>4. FramesOK(t)'
    <3>1. ASSUME NEW i \in 1 .. Height(t) - 1 PROVE FrameOK(stack[t][i])'
      <4>1. i \in 1 .. Height(t) /\ month' \in Nat /\ month <= month'
        BY <1>0, <2>1, <2>2
      <4> QED BY <1>0, <1>2, <2>2, <2>3, <4>1, FramesBelow
    <3> QED BY <2>2, <3>1 DEF FramesOK
  <2> QED BY <2>1, <2>2, <2>3, <2>4, MonthKept
<1>12. ASSUME NEW t \in Threads, Format(t), ~ Fits(Top(t)) PROVE MonthOK'
  <2>1. /\ Busy(t) /\ Top(t).at = "format"
        /\ month' = month /\ tagMonth' = tagMonth /\ made' = made /\ refused' = refused
    BY <1>12 DEF Format, FormatOr, IsAt, Busy, diskVars, tagVars
  <2>2. /\ Height(t) \in Nat \ {0} /\ Rest(t) /\ Height(t)' = Height(t) + 1
        /\ Top(t)' = Frame(Top(t).tag, Message) /\ stack'[t][Height(t)] = Top(t)
        /\ \A i \in 1 .. Height(t) - 1 : stack'[t][i] = stack[t][i]
    BY <1>0, <1>3, <1>12, <2>1, FormatGrows DEF Grows
  <2>3. CareKept
    BY <2>1, <2>2, CareLeft
  <2>4. PICK f : f = Frame(Top(t).tag, Message) /\ f.stamp = 0 /\ f.now = 0 /\ ~ PastMonth(f)
                 /\ f.at # "month"
    BY <1>3, <2>1, FrameMade
  <2>5. FrameOK(f)'
    BY <1>0, <2>1, <2>4 DEF FrameOK, PastMonth
  <2>6. stack'[t][Height(t) + 1] = f
    BY <2>2, <2>4 DEF Top, Height
  <2>7. ASSUME NEW i \in 1 .. Height(t) + 1 PROVE FrameOK(stack[t][i])'
    <3>1. CASE i = Height(t) + 1
      BY <2>5, <2>6, <3>1 DEF FrameOK, PastMonth
    <3>2. CASE i # Height(t) + 1
      <4>1. i \in 1 .. Height(t) /\ month' \in Nat /\ month <= month'
        BY <1>0, <2>1, <2>2, <3>2
      <4>2. stack[t][Height(t)] = Top(t) /\ (i \in 1 .. Height(t) - 1 \/ i = Height(t))
        BY <2>2, <4>1 DEF Top, Height
      <4>3. stack'[t][i] = stack[t][i]
        BY <2>2, <4>2
      <4> QED BY <1>0, <1>2, <2>3, <4>1, <4>3, FramesBelow
    <3> QED BY <3>1, <3>2
  <2>8. FramesOK(t)'
    BY <2>2, <2>7 DEF FramesOK
  <2> QED BY <2>1, <2>2, <2>3, <2>8, MonthKept
<1>13. ASSUME NEW t \in Threads, NEW g \in Tags, NEW m \in Messages, NEW level \in Levels,
              Call(t, g, m, level)
       PROVE  MonthOK'
  <2>1. /\ month' = month /\ tagMonth' = tagMonth /\ made' = made /\ refused' = refused
    BY <1>13 DEF Call, diskVars, tagVars
  <2>2. /\ ~ Busy(t) /\ Height(t)' = 1 /\ Top(t)' = Frame(g, m) /\ Rest(t)
    BY <1>0, <1>13, CallMade
  <2>3. CareKept
    BY <2>1, <2>2, CareLeft
  <2>4. PICK f : f = Frame(g, m) /\ f.stamp = 0 /\ f.now = 0 /\ ~ PastMonth(f) /\ f.at # "month"
    BY FrameMade
  <2>5. FrameOK(f)'
    BY <1>0, <2>1, <2>4 DEF FrameOK, PastMonth
  <2>6. stack'[t][1] = f
    BY <2>2, <2>4 DEF Top, Height
  <2>7. FramesOK(t)'
    <3>1. \A i \in 1 .. Height(t)' : i = 1
      BY <2>2
    <3> QED BY <2>5, <2>6, <3>1 DEF FramesOK, FrameOK, PastMonth
  <2> QED BY <2>1, <2>2, <2>3, <2>7, MonthKept
<1> QED
  BY <1>4, <1>5, <1>6, <1>7, <1>8, <1>9, <1>10, <1>11, <1>12, <1>13, NextSplit

(***************************************************************************)
(* Theorems                                                                *)
(***************************************************************************)
LEMMA IInvParts ==
  IInv <=> /\ Types
           /\ LockOK /\ FileOK /\ LinesOK /\ FitOK /\ MonthOK
BY DEF IInv, Types

LEMMA Invariance == Spec => []IInv
<1>1. ASSUME Init PROVE IInv
  <2>1. TypeOK /\ files \in [Names -> Seq(Nat)]
    <3>1. /\ month \in Months /\ dir \in Dirs /\ folders \subseteq Dirs \X Months
          /\ refused \subseteq Tags \X Months /\ made \subseteq Names
          /\ files \in [Names -> Seq(Nat)] /\ \A n \in Names : files[n] = <<>>
          /\ openBy \in [Names -> Threads \cup {None}]
      BY <1>1, Constants DEF Init
    <3>2. /\ tagMonth \in [Tags -> 0 .. YearLen] /\ bufLen \in [Tags -> Nat]
          /\ text \in [Tags -> 0 .. logCount] /\ lost \subseteq 1 .. logCount
          /\ owner \in [Tags -> Threads \cup {None}] /\ depth \in [Tags -> Nat]
      BY <1>1, Constants DEF Init
    <3>3. logLevel \in LEVEL_DEBUG .. LEVEL_SYSTEM /\ logCount \in Nat
          /\ calls \in 0 .. MaxCalls /\ settings \in 0 .. MaxSettings
      BY <1>1, Constants, ConstantsAssumption DEF Init, LEVEL_DEBUG, LEVEL_SYSTEM
    <3> QED BY <3>1, <3>2, <3>3 DEF TypeOK
  <2>2. \A t \in Threads : stack[t] = <<>> /\ ~ Busy(t) /\ Height(t) = 0
    BY <1>1 DEF Init, Busy, Height
  <2>3. StackOK
    BY <1>1, <2>2 DEF Init, StackOK
  <2>4. LockOK
    BY <1>1, <2>2, Constants DEF Init, LockOK, Owns
  <2>5. FileOK
    BY <1>1, <2>2, Constants DEF Init, FileOK, Using, Marking, IsAt, Names
  <2>6. LinesOK
    BY <1>1, <2>2 DEF Init, LinesOK, Pending
  <2>7. FitOK
    BY <2>2 DEF FitOK
  <2>8. MonthOK
    <3>1. \A t \in Threads : FramesOK(t)
      BY <2>2 DEF FramesOK
    <3>2. \A g \in Tags, m \in Months : tagMonth[g] = 0 /\ m + 1 # 0
      BY <1>1 DEF Init, Months
    <3> QED BY <3>1, <3>2 DEF MonthOK, TagOK
  <2> QED BY <2>1, <2>3, <2>4, <2>5, <2>6, <2>7, <2>8 DEF IInv
<1>2. ASSUME IInv, [Next]_vars PROVE IInv'
  <2>1. Types /\ LockOK /\ FileOK /\ LinesOK /\ FitOK /\ MonthOK
    BY <1>2, IInvParts
  <2>2. Types' /\ LockOK'
    BY <1>2, <2>1, TypesStep, LockStep
  <2>3. FileOK' /\ LinesOK'
    BY <1>2, <2>1, FileStep, LinesStep
  <2>4. FitOK' /\ MonthOK'
    BY <1>2, <2>1, FitStep, MonthStep
  <2> QED BY <2>2, <2>3, <2>4 DEF IInv, Types
<1> QED BY <1>1, <1>2, PTL DEF Spec

\* Every file begins with its mark, once, and holds its lines in the order of
\* their numbers and none that was given up, whatever calls interrupt each
\* other and whatever months pass: the line in a buffer stays the line of its
\* call until it is written, though ResizeBuffer logs in the middle of it.
THEOREM LinesAreInOrder == Spec => []LinesInOrder
<1>1. IInv => LinesInOrder
  BY DEF IInv, LinesInOrder, LinesOK
<1> QED BY <1>1, Invariance, PTL

\* A line that is being written and the zero that ends it are within the buffer
\* of its tag, for any lengths of messages, headers and first buffers.
THEOREM LinesFit == Spec => []LineFits
<1>1. ASSUME IInv PROVE LineFits
  <2> SUFFICES ASSUME NEW t \in Threads, NEW i \in DOMAIN stack[t],
                      stack[t][i].at \in {"open", "write", "leave"}
               PROVE  LineLength(stack[t][i]) < bufLen[stack[t][i].tag]
    BY DEF LineFits
  <2>1. StackOK /\ FitOK
    BY <1>1 DEF IInv
  <2>2. Height(t) \in Nat /\ i \in 1 .. Height(t)
    BY <2>1 DEF StackOK, Height
  <2>3. i = Height(t)
    <3>1. i \in 1 .. Height(t) - 1 \/ i = Height(t)
      BY <2>2
    <3> QED BY <2>1, <3>1 DEF StackOK
  <2>4. Busy(t) /\ stack[t][i] = Top(t)
    BY <2>1, <2>2, <2>3, StackShape
  <2> QED BY <2>1, <2>4 DEF FitOK
<1> QED BY <1>1, Invariance, PTL

LEMMA MakersSetMonth ==
  ASSUME StackOK, NEW u \in Threads, Busy(u), Top(u).at \in {"create", "bom"}
  PROVE  MakingFile(u, Top(u).tag, Top(u).now)
<1>1. Height(u) \in DOMAIN stack[u] /\ stack[u][Height(u)] = Top(u)
  BY DEF StackOK, Height, Busy, Top
<1> QED BY <1>1 DEF MakingFile

\* In the first year a line is given up only while another thread makes its
\* file, or where its own SetMonth met the next month, found no folder, or made
\* the file in a directory set before: lines of other tags, and lines of the
\* same tag, are never in the way of one another.
THEOREM LossesHaveCause == Spec => LossHasCause
<1> DEFINE Cause(t) ==
             \/ \E u \in Threads \ {t} : MakingFile(u, Top(t).tag, Top(t).stamp)
             \/ Top(t).now > Top(t).stamp
             \/ <<Top(t).tag, Top(t).stamp>> \in refused
             \/ \E d \in Dirs \ {dir} : <<d, Top(t).tag, Top(t).stamp>> \in made
<1>1. ASSUME IInv, [Next]_vars, month < YearLen, NEW t \in Threads, IsAt(t, "open"),
             text[Top(t).tag] \in lost' \ lost
      PROVE  Cause(t)
  <2>1. /\ Types /\ StackOK /\ LockOK /\ FileOK /\ LinesOK /\ MonthOK
        /\ openBy \in [Names -> Threads \cup {None}] /\ dir \in Dirs
    BY <1>1, IInvParts DEF Types, TypeOK
  <2>2. /\ Busy(t) /\ Pending(t) /\ Top(t) \in Frames /\ Top(t).tag \in Tags
        /\ Top(t).stamp \in Months /\ Top(t).at = "open" /\ Top(t).at \in LinePcs
    BY <1>1, <2>1, StackShape DEF IsAt, Busy, Pending, LinePcs, Frames
  <2>3. \A u \in Threads \ {t} : Pending(u) => Top(u).tag # Top(t).tag /\ Top(u).tag \in Tags
    BY <2>1, <2>2, PendingOwns
  <2>4. Open(t)
    <3>1. PICK u \in Threads : Open(u) /\ lost' = lost \cup {text[Top(u).tag]}
      BY <1>1 DEF Next, Step, MonthPasses, SetDirectory, SetLogLevel, Stamp, Compare, ReadClock,
                  SetMonth, Create, WriteBOM, Enter, EnterWhen, Format, FormatOr, Open, Write,
                  Leave, Call, vars
    <3>2. ASSUME u # t PROVE FALSE
      <4>1. Pending(u)
        BY <3>1 DEF Open, IsAt, Pending, Busy
      <4>2. text[Top(u).tag] = text[Top(t).tag] /\ text[Top(t).tag] > 0
        BY <1>1, <2>1, <2>2, <3>1 DEF LinesOK
      <4> QED BY <2>1, <2>2, <2>3, <3>2, <4>1, <4>2 DEF LinesOK
    <3> QED BY <3>1, <3>2
  <2>5. PICK g \in Tags, m \in Months, n \in Names : g = Top(t).tag /\ m = Top(t).stamp /\ n = <<dir, g, m>>
    BY <2>1, <2>2 DEF Names
  <2>6. Top(t).now > m \/ Cared(g, m)
    <3>1. FramesOK(t) /\ Height(t) \in 1 .. Height(t) /\ Top(t) = stack[t][Height(t)]
      BY <1>1, <2>1, <2>2, StackShape DEF MonthOK
    <3>2. FrameOK(Top(t))
      BY <3>1 DEF FramesOK
    <3> QED BY <2>2, <2>5, <3>2 DEF FrameOK, PastMonth
  <2>7. \A u \in Threads : Busy(u) /\ Top(u).tag = g /\ Top(u).now = m /\ Top(u).at \in {"create", "bom"}
                             => u # t /\ MakingFile(u, g, m)
    BY <2>1, <2>2, MakersSetMonth
  <2>8. CASE openBy[n] # None
    <3>1. PICK u \in Threads : openBy[n] = u
      BY <2>1, <2>8
    <3>2. Using(u, n)
      BY <2>1, <3>1 DEF FileOK
    <3>3. ~ (IsAt(u, "write") /\ Name(Top(u)) = n)
      BY <2>2, <2>3, <2>5 DEF IsAt, Busy, Pending, Name
    <3>4. Busy(u) /\ Top(u).at = "bom" /\ Top(u).tag = g /\ Top(u).now = m
      BY <2>5, <3>2, <3>3 DEF Using, Marking, IsAt, Busy, NewName
    <3> QED BY <2>5, <2>7, <3>4
  <2>9. CASE openBy[n] = None
    <3>1. n \notin made
      <4>1. Name([Top(t) EXCEPT !.dir = dir, !.at = "write"]) = n
        BY <2>2, <2>5 DEF Name, Frames
      <4> QED BY <1>1, <2>4, <2>9, <4>1 DEF Open
    <3>2. CASE \E u \in Threads : Making(u, g, m)
      <4>1. PICK u \in Threads : Making(u, g, m)
        BY <3>2
      <4>2. Busy(u) /\ Top(u).at = "create" /\ Top(u).tag = g /\ Top(u).now = m
        BY <4>1 DEF Making, IsAt, Busy
      <4> QED BY <2>5, <2>7, <4>2
    <3>3. CASE Tried(g, m)
      BY <2>5, <3>1, <3>3 DEF Tried
    <3>4. CASE Top(t).now > m
      BY <2>5, <3>4
    <3> QED BY <2>6, <3>2, <3>3, <3>4 DEF Cared
  <2> QED BY <2>8, <2>9
<1>2. IInv /\ [Next]_vars =>
        [month < YearLen =>
           \A t \in Threads :
             LET f == Top(t) IN
             IsAt(t, "open") /\ text[f.tag] \in lost' \ lost =>
               \/ \E u \in Threads \ {t} : MakingFile(u, f.tag, f.stamp)
               \/ f.now > f.stamp
               \/ <<f.tag, f.stamp>> \in refused
               \/ \E d \in Dirs \ {dir} : <<d, f.tag, f.stamp>> \in made]_vars
  BY <1>1
<1> QED BY <1>2, Invariance, PTL DEF Spec, LossHasCause
=============================================================================
