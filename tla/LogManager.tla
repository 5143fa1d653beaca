----------------------------- MODULE LogManager -----------------------------
(***************************************************************************)
(* CLogManager (Iocp_Echo_LockFree_Class): a log file per tag and month.   *)
(* Each tag has a buffer and a critical section around formatting and      *)
(* writing a line; whoever finds that the month has changed makes the new  *)
(* file first, Log outside of that section and LogHex inside.  A line that *)
(* does not fit doubles the buffer, which logs a line of its own, by the   *)
(* same thread, in the middle of the first one.                            *)
(*                                                                         *)
(* A line is the number it gets from _logCount, and a month the number of  *)
(* months since the start.  Files are opened without sharing: CreateFile   *)
(* fails on one that somebody else has open.  SetDirectory is for one      *)
(* caller at a time, as its comment asks; nobody stops it from running     *)
(* while lines are logged, and each line, and each new file, goes where    *)
(* _dir points at that moment.                                             *)
(***************************************************************************)
EXTENDS Integers, Sequences

CONSTANTS
  Threads,      \* callers of Log and LogHex
  Tags,         \* the tags of the constructor
  Dirs,         \* directories, FirstDir is the one of the constructor
  FirstDir,
  Messages,     \* [kind: {"log", "hex"}, len: Nat, bytes: Nat], what is logged
  HeaderLen,    \* characters of a line's header
  FirstBufLen,  \* MAX_LOG_BUFFER_LEN
  ResizeLen,    \* characters of the message ResizeBuffer logs
  YearLen,      \* months of a year (12)
  MaxMonth,     \* bound: months that pass
  MaxCalls,     \* bound: calls made in all
  MaxSettings,  \* bound: calls of SetDirectory and SetLogLevel
  Levels,       \* levels that are used and set, LEVEL_SYSTEM among them
  None          \* no thread

LEVEL_DEBUG  == 0   \* LEVEL_ERROR is 1
LEVEL_SYSTEM == 2
Months       == 0 .. MaxMonth
Names        == Dirs \X Tags \X Months   \* of files
BOM          == 0

ASSUME ConstantsAssumption ==
  /\ None \notin Threads /\ FirstDir \in Dirs
  /\ HeaderLen \in Nat /\ ResizeLen \in Nat /\ FirstBufLen \in Nat \ {0}
  /\ YearLen \in Nat \ {0} /\ MaxMonth \in Nat /\ MaxCalls \in Nat /\ MaxSettings \in Nat
  /\ LEVEL_SYSTEM \in Levels /\ Levels \subseteq LEVEL_DEBUG .. LEVEL_SYSTEM
  /\ \A m \in Messages : m.kind \in {"log", "hex"} /\ m.len \in Nat /\ m.bytes \in Nat

VARIABLES
  month,             \* the clock
  dir,               \* _dir
  folders,           \* the folders of months, <<directory, month>>
  refused,           \* history: <<tag, month>> whose file found no folder
  made, files,       \* files that exist, and what is in them
  openBy,            \* the thread that has a file open
  logLevel, logCount,
  tagMonth, bufLen, text,   \* of each tag: _month, _bufLen, the line in _buffer
  owner, depth,             \* of each tag: _lock
  stack,             \* of each thread: its calls, the innermost one last
  calls, settings,   \* calls made so far, of Log and LogHex and of the others
  lost               \* history: lines that were not written

tagVars  == <<tagMonth, bufLen, text>>
lockVars == <<owner, depth>>
counts   == <<calls, settings>>
diskVars == <<dir, folders, refused, made, files, openBy>>
vars     == <<month, diskVars, logLevel, logCount, tagVars, lockVars, stack, counts, lost>>

\* wMonth, in which the year is lost; a tag's _month is 0 before the first call
Wmonth(m) == (m % YearLen) + 1

Init ==
  /\ month = 0 /\ dir = FirstDir /\ folders = {<<FirstDir, 0>>}
  /\ refused = {} /\ made = {}
  /\ files = [n \in Names |-> <<>>] /\ openBy = [n \in Names |-> None]
  /\ logLevel = LEVEL_DEBUG /\ logCount = 0
  /\ tagMonth = [g \in Tags |-> 0] /\ bufLen = [g \in Tags |-> FirstBufLen]
  /\ text = [g \in Tags |-> 0]
  /\ owner = [g \in Tags |-> None] /\ depth = [g \in Tags |-> 0]
  /\ stack = [t \in Threads |-> <<>>] /\ calls = 0 /\ settings = 0
  /\ lost = {}

\* a call, at its first step; "stamp" is st, "now" is the st of SetMonth, and
\* "dir" is where the file is that the call has open
Frame(tag, m) ==
  [tag |-> tag, msg |-> m, stamp |-> 0, now |-> 0, dir |-> FirstDir,
   at |-> IF m.kind = "log" THEN "stamp" ELSE "enter"]

Top(t)      == stack[t][Len(stack[t])]
Below(t)    == SubSeq(stack[t], 1, Len(stack[t]) - 1)
IsAt(t, l)  == stack[t] # <<>> /\ Top(t).at = l
Become(t, f) == stack' = [stack EXCEPT ![t] = Append(Below(t), f)]
Goto(t, l)  == Become(t, [Top(t) EXCEPT !.at = l])
Name(f)     == <<f.dir, f.tag, f.stamp>>
NewName(f)  == <<f.dir, f.tag, f.now>>

\* Log takes the section once the month is right, LogHex has it already
AfterMonth(f) == IF f.msg.kind = "log" THEN "enter" ELSE "format"
AfterEnter(f) == IF f.msg.kind = "log" THEN "format" ELSE "stamp"

(***************************************************************************)
(* Settings, and the clock                                                 *)
(***************************************************************************)
MonthPasses ==
  /\ month < MaxMonth
  /\ month' = month + 1
  /\ UNCHANGED <<diskVars, logLevel, logCount, tagVars, lockVars, stack, counts, lost>>

\* _dir, and the folder of the present month in it (the constructor's call is in
\* Init).  The folder is not made where the path is too long, in which case _dir
\* holds the beginning of it, or where CreateDirectory fails.
SetDirectory(d) ==
  /\ settings < MaxSettings /\ settings' = settings + 1
  /\ dir' = d
  /\ folders' \in {folders, folders \cup {<<d, month>>}}
  /\ UNCHANGED <<month, refused, made, files, openBy, logLevel, logCount, tagVars, lockVars,
                 stack, calls, lost>>

SetLogLevel(level) ==
  /\ logLevel # level /\ settings < MaxSettings /\ settings' = settings + 1
  /\ logLevel' = level
  /\ UNCHANGED <<month, diskVars, logCount, tagVars, lockVars, stack, calls, lost>>

(***************************************************************************)
(* Log and LogHex                                                          *)
(***************************************************************************)
\* a line below the level is not logged
Call(t, tag, m, level) ==
  /\ stack[t] = <<>> /\ calls < MaxCalls
  /\ logLevel <= level
  /\ stack' = [stack EXCEPT ![t] = <<Frame(tag, m)>>]
  /\ calls' = calls + 1
  /\ UNCHANGED <<month, diskVars, logLevel, logCount, tagVars, lockVars, settings, lost>>

\* GetLocalTime
Stamp(t) ==
  /\ IsAt(t, "stamp")
  /\ Become(t, [Top(t) EXCEPT !.stamp = month, !.at = "compare"])
  /\ UNCHANGED <<month, diskVars, logLevel, logCount, tagVars, lockVars, counts, lost>>

Compare(t) ==
  /\ IsAt(t, "compare")
  /\ Goto(t, IF Wmonth(Top(t).stamp) # tagMonth[Top(t).tag]
               THEN "clock" ELSE AfterMonth(Top(t)))
  /\ UNCHANGED <<month, diskVars, logLevel, logCount, tagVars, lockVars, counts, lost>>

\* EnterCriticalSection (faulty variant: it does not wait)
EnterWhen(t, free) ==
  LET g == Top(t).tag IN
  /\ IsAt(t, "enter") /\ free
  /\ owner' = [owner EXCEPT ![g] = t]
  /\ depth' = [depth EXCEPT ![g] = @ + 1]
  /\ Goto(t, AfterEnter(Top(t)))
  /\ UNCHANGED <<month, diskVars, logLevel, logCount, tagVars, counts, lost>>
EnterAnyway(t) == EnterWhen(t, TRUE)
Enter(t)       == EnterWhen(t, owner[Top(t).tag] \in {None, t})

\* the line fits: Log adds a newline and a zero, LogHex reserves 16 characters
\* for a byte (faulty variant: no room for newline and zero)
FitsBarely(f) == HeaderLen + f.msg.len < bufLen[f.tag]
Fits(f) ==
  IF f.msg.kind = "log"
    THEN HeaderLen + f.msg.len + 2 < bufLen[f.tag]
    ELSE /\ HeaderLen + f.msg.len < bufLen[f.tag]
         /\ 16 * f.msg.bytes + HeaderLen + f.msg.len <= bufLen[f.tag]

\* ResizeBuffer, up to its call of Log; the caller then goes on at "after"
ResizeBuffer(t, after) ==
  LET f       == Top(t)
      message == [kind |-> "log", len |-> ResizeLen, bytes |-> 0] IN
  /\ bufLen' = [bufLen EXCEPT ![f.tag] = 2 * @]
  /\ stack' = [stack EXCEPT ![t] =
       Below(t) \o << [f EXCEPT !.at = after], Frame(f.tag, message) >>]

\* one turn of the loop: each try takes a number
\* (faulty variant: the line is not formatted again)
FormatOr(t, after) ==
  /\ IsAt(t, "format")
  /\ logCount' = logCount + 1
  /\ text' = [text EXCEPT ![Top(t).tag] = logCount + 1]
  /\ IF Fits(Top(t)) THEN Goto(t, "open") /\ UNCHANGED bufLen
                     ELSE ResizeBuffer(t, after)
  /\ UNCHANGED <<month, diskVars, logLevel, tagMonth, lockVars, counts, lost>>
FormatOnce(t) == FormatOr(t, "open")
Format(t)     == FormatOr(t, "format")

\* CreateFile with OPEN_EXISTING; without a handle, WriteFile does nothing
Open(t) ==
  LET f == [Top(t) EXCEPT !.dir = dir, !.at = "write"]
      n == Name(f) IN
  /\ IsAt(t, "open")
  /\ IF n \in made /\ openBy[n] = None
       THEN /\ openBy' = [openBy EXCEPT ![n] = t]
            /\ Become(t, f)
            /\ UNCHANGED lost
       ELSE /\ lost' = lost \cup {text[Top(t).tag]}
            /\ Goto(t, "leave")
            /\ UNCHANGED openBy
  /\ UNCHANGED <<month, dir, folders, refused, made, files, logLevel, logCount, tagVars, lockVars, counts>>

\* WriteFile at the end of the file, CloseHandle
Write(t) ==
  LET n == Name(Top(t)) IN
  /\ IsAt(t, "write")
  /\ files' = [files EXCEPT ![n] = Append(@, text[Top(t).tag])]
  /\ openBy' = [openBy EXCEPT ![n] = None]
  /\ Goto(t, "leave")
  /\ UNCHANGED <<month, dir, folders, refused, made, logLevel, logCount, tagVars, lockVars,
                 counts, lost>>

\* LeaveCriticalSection; the call, or the one ResizeBuffer made, returns
\* (faulty variant: a call that ResizeBuffer made does not leave)
Return(t) == stack' = [stack EXCEPT ![t] = Below(t)]
LeaveOuter(t) ==
  LET g == Top(t).tag IN
  /\ IsAt(t, "leave")
  /\ IF Below(t) = <<>>
       THEN /\ depth' = [depth EXCEPT ![g] = @ - 1]
            /\ owner' = [owner EXCEPT ![g] = IF depth[g] = 1 THEN None ELSE @]
       ELSE UNCHANGED lockVars
  /\ Return(t)
  /\ UNCHANGED <<month, diskVars, logLevel, logCount, tagVars, counts, lost>>
Leave(t) ==
  LET g == Top(t).tag IN
  /\ IsAt(t, "leave")
  /\ depth' = [depth EXCEPT ![g] = @ - 1]
  /\ owner' = [owner EXCEPT ![g] = IF depth[g] = 1 THEN None ELSE @]
  /\ Return(t)
  /\ UNCHANGED <<month, diskVars, logLevel, logCount, tagVars, counts, lost>>

(***************************************************************************)
(* SetMonth                                                                *)
(***************************************************************************)
\* its own GetLocalTime
ReadClock(t) ==
  /\ IsAt(t, "clock")
  /\ Become(t, [Top(t) EXCEPT !.now = month, !.at = "month"])
  /\ UNCHANGED <<month, diskVars, logLevel, logCount, tagVars, lockVars, counts, lost>>

\* _month says that the file is there before it is
SetMonth(t) ==
  /\ IsAt(t, "month")
  /\ tagMonth' = [tagMonth EXCEPT ![Top(t).tag] = Wmonth(Top(t).now)]
  /\ Goto(t, "create")
  /\ UNCHANGED <<month, diskVars, logLevel, logCount, bufLen, text, lockVars, counts, lost>>

\* CreateFile with OPEN_ALWAYS: it fails where there is no folder, or the file
\* is open
Create(t) ==
  LET f == [Top(t) EXCEPT !.dir = dir, !.at = "bom"]
      n == NewName(f) IN
  /\ IsAt(t, "create")
  /\ IF <<dir, f.now>> \in folders /\ openBy[n] = None
       THEN /\ made' = made \cup {n}
            /\ openBy' = [openBy EXCEPT ![n] = t]
            /\ Become(t, f)
       ELSE Goto(t, AfterMonth(Top(t))) /\ UNCHANGED <<made, openBy>>
  /\ refused' = IF <<dir, f.now>> \in folders THEN refused
                                              ELSE refused \cup {<<f.tag, f.now>>}
  /\ UNCHANGED <<month, dir, folders, files, logLevel, logCount, tagVars, lockVars,
                 counts, lost>>

\* the mark, in an empty file; CloseHandle
WriteBOM(t) ==
  LET n == NewName(Top(t)) IN
  /\ IsAt(t, "bom")
  /\ files' = IF files[n] = <<>> THEN [files EXCEPT ![n] = <<BOM>>] ELSE files
  /\ openBy' = [openBy EXCEPT ![n] = None]
  /\ Goto(t, AfterMonth(Top(t)))
  /\ UNCHANGED <<month, dir, folders, refused, made, logLevel, logCount, tagVars, lockVars,
                 counts, lost>>

(***************************************************************************)
(* The specification                                                       *)
(***************************************************************************)
Step(t) ==
  \/ Stamp(t) \/ Compare(t) \/ ReadClock(t) \/ SetMonth(t) \/ Create(t) \/ WriteBOM(t)
  \/ Enter(t) \/ Format(t) \/ Open(t) \/ Write(t) \/ Leave(t)

Next ==
  \/ MonthPasses \/ \E d \in Dirs : SetDirectory(d)
  \/ \E level \in Levels : SetLogLevel(level)
  \/ \E t \in Threads :
       \/ Step(t)
       \/ \E tag \in Tags, m \in Messages, level \in Levels : Call(t, tag, m, level)

Spec == Init /\ [][Next]_vars

\* threads are scheduled; nobody has to call, and time need not pass
FairSpec == Spec /\ \A t \in Threads : WF_vars(Step(t))

(***************************************************************************)
(* Properties                                                              *)
(***************************************************************************)
\* Every variable stays in its range.
TypeOK ==
  /\ month \in Months /\ dir \in Dirs /\ folders \subseteq Dirs \X Months
  /\ refused \subseteq Tags \X Months /\ made \subseteq Names
  /\ \A n \in Names : files[n] # <<>> => n \in made
  /\ openBy \in [Names -> Threads \cup {None}]
  /\ logLevel \in LEVEL_DEBUG .. LEVEL_SYSTEM /\ logCount \in Nat
  /\ tagMonth \in [Tags -> 0 .. YearLen] /\ bufLen \in [Tags -> Nat]
  /\ text \in [Tags -> 0 .. logCount] /\ lost \subseteq 1 .. logCount
  /\ owner \in [Tags -> Threads \cup {None}] /\ depth \in [Tags -> Nat]
  /\ calls \in 0 .. MaxCalls /\ settings \in 0 .. MaxSettings

\* A file begins with the mark that says how it is encoded, once, whoever makes
\* it and whoever writes first.  Its lines follow in the order of their numbers,
\* none is there twice, and a line that was given up as lost is not there.  A
\* buffer that another line is formatted into, or ResizeBuffer's own line left
\* in it, would break this.  (Every variable is in its range besides.)
LinesInOrder ==
  /\ TypeOK
  /\ \A n \in Names : \A i \in DOMAIN files[n] :
       /\ files[n][1] = BOM /\ files[n][i] \notin lost
       /\ \A j \in 1 .. i - 1 : files[n][j] < files[n][i]

\* the characters of a line, without the zero that ends it
LineLength(f) ==
  HeaderLen + f.msg.len
  + (IF f.msg.kind = "log" THEN 1
     ELSE 3 * f.msg.bytes + (IF f.msg.bytes % 16 = 0 THEN 0 ELSE 1))
\* The line and its zero are within the buffer, however often it had to grow.
LineFits ==
  \A t \in Threads : \A i \in DOMAIN stack[t] :
    LET f == stack[t][i] IN
    f.at \in {"open", "write", "leave"} => LineLength(f) < bufLen[f.tag]

\* thread t is making the file of a tag and month
MakingFile(t, tag, m) ==
  \E i \in DOMAIN stack[t] :
    stack[t][i].tag = tag /\ stack[t][i].now = m /\ stack[t][i].at \in {"create", "bom"}
\* A line is lost for one of four reasons: another thread is making the file;
\* SetMonth, called by the line itself, read the clock in a later month than
\* the line's; SetMonth found no folder for the month; or it made the file in
\* the directory that was set before.  So two lines never get in each other's
\* way, and _month never says of a file that nobody has tried to make.  (The
\* month alone is compared: after a year without a line this fails.)
LossHasCause ==
  [][month < YearLen =>
       \A t \in Threads :
         LET f == Top(t) IN
         IsAt(t, "open") /\ text[f.tag] \in lost' \ lost =>
           \/ \E u \in Threads \ {t} : MakingFile(u, f.tag, f.stamp)
           \/ f.now > f.stamp
           \/ <<f.tag, f.stamp>> \in refused
           \/ \E d \in Dirs \ {dir} : <<d, f.tag, f.stamp>> \in made]_vars

\* A call returns: the loop ends once the buffer has grown enough, and the
\* lock that ResizeBuffer's line takes again is free again in the end.
CallsReturn == \A t \in Threads : stack[t] # <<>> ~> stack[t] = <<>>
=============================================================================
