------------------------------ MODULE Console ------------------------------
(***************************************************************************)
(* What is printed: kprintf with its static buffer, ksnprintf, the user    *)
(* library's printf and snprintf, char_write and the driver of the serial  *)
(* line (16550.c).  kprintf runs in the kernel's main and in system calls, *)
(* where the timer is masked; the fast interrupt is not (interrupts.s:258),*)
(* and its handler prints too.  A call of kprintf or printf is one step    *)
(* for each item of its format and one for each byte that goes out, and    *)
(* FIQ may come between any two of them.                                   *)
(***************************************************************************)
EXTENDS Format

CONSTANTS
  Size,       \* KPRINTF_BUFSIZE
  Formats,    \* the formats that callers print
  FiqText,    \* the handler's format
  Sizes,      \* sizes of the buffers given to ksnprintf and snprintf
  Keys,       \* what is typed, one line
  MaxFiq      \* bound: fast interrupts

ASSUME ConsoleAssumption == Size \in Nat \ {0} /\ Sizes \subseteq Nat \ {0} /\ MaxFiq \in Nat

VARIABLES
  registered,   \* char_dev[UART_16550_major].registered, with minor 0
  who,          \* whose buffer is followed: kprintf's or the user library's printf's
  buf,          \* that static buffer
  pc,           \* "idle", "format" or "output"
  call,         \* the call in progress
  device,       \* what has gone out on the serial line for the call
  fiqs,         \* history: fast interrupts
  cut,          \* history: FIQ came during the call
  result        \* what the last ksnprintf, snprintf, printf, kprintf or char_read did

vars == <<registered, who, buf, pc, call, device, fiqs, cut, result>>

Junk == "junk"
Vt == "VT"        \* 11, one more than '\n'
Places(size) == 0 .. size + Beyond - 1
Fresh(size) == [k \in Places(size) |-> Junk]
Nothing == [kind |-> "none"]

Init == /\ registered = FALSE
        /\ who \in {"kernel", "user"}
        /\ buf = Fresh(Size)
        /\ pc = "idle"
        /\ call = Nothing
        /\ device = <<>>
        /\ fiqs = 0
        /\ cut = FALSE
        /\ result = Nothing
-----------------------------------------------------------------------------
(* char_dev_init, for the one serial line of char_dev_list; what           *)
(* UART_16550_init prints of itself is left out.                           *)
CharDevInit == /\ ~registered
               /\ registered' = TRUE
               /\ UNCHANGED <<who, buf, pc, call, device, fiqs, cut, result>>

(* A mistake: the end of kprintf leaves the end to ksnprintf's test. *)
Terminate_ifRoom(s) == IF s.remain >= 0 THEN At(s.mem, s.bufptr, Nul) ELSE s.mem

(* The end of kprintf and printf *)
Terminate(s) == IF s.remain = 0 THEN At(s.mem, s.size - 1, Nul) ELSE At(s.mem, s.bufptr, Nul)

(* strlen, in a buffer that may have no end *)
StrLen(mem) == LET ends == {k \in DOMAIN mem : mem[k] = Nul}
               IN IF ends = {} THEN Size + Beyond ELSE CHOOSE k \in ends : \A j \in ends : k <= j

(* No call is running, and the answer of the last has been used. *)
Ready == pc = "idle" /\ result = Nothing

(* The caller is done with the answer. *)
Return == /\ pc = "idle"
          /\ result # Nothing
          /\ result' = Nothing
          /\ call' = Nothing
          /\ device' = <<>>
          /\ cut' = FALSE
          /\ UNCHANGED <<registered, who, buf, pc, fiqs>>

(* kprintf(format) or, from a program, printf(format) *)
BeginFormat(items) ==
  /\ Ready
  /\ pc' = "format"
  /\ call' = [items |-> items, at |-> Begin(<<>>, Size, items)]
  /\ UNCHANGED <<registered, who, buf, device, fiqs, cut, result>>

(* The cursors are the call's own; the bytes are in the static buffer.     *)
Cursor == [call.at EXCEPT !.mem = buf]

FormatItem ==
  /\ pc = "format"
  /\ Goes(Cursor)
  /\ LET s == Step(Cursor)
     IN /\ buf' = s.mem
        /\ call' = [call EXCEPT !.at = [s EXCEPT !.mem = <<>>]]
        /\ pc' = IF s.ok THEN pc ELSE "idle"
        /\ result' = IF s.ok THEN result ELSE [kind |-> "failed"]
  /\ UNCHANGED <<registered, who, device, fiqs, cut>>

(* char_write(console_major, console_minor, buf, KPRINTF_BUFSIZE - remain):*)
(* -2 without a device.  printf gives write() the length of its text.      *)
BeginOutput ==
  /\ pc = "format"
  /\ call.at.ok /\ ~Goes(Cursor)
  /\ LET mem == Terminate(Cursor)
     IN /\ buf' = mem
        /\ call' = [call EXCEPT !.at.mem = 0,
                                !.at.size = IF who = "user" THEN StrLen(mem) ELSE Size - call.at.remain]
  /\ pc' = IF registered THEN "output" ELSE "idle"
  /\ result' = IF registered THEN result ELSE [kind |-> "no device"]
  /\ UNCHANGED <<registered, who, device, fiqs, cut>>

(* A mistake: the text is not looked at, only the length. *)
OutputEnds_byLength(mem, count, len) == count > len

(* UART_16550_write: up to the end of the text, or one byte past len. *)
OutputEnds(mem, count, len) == count \notin DOMAIN mem \/ mem[count] = Nul \/ count > len

(* UART_16550_write, one character; at.mem counts them, at.size is len.    *)
OutputByte ==
  /\ pc = "output"
  /\ ~OutputEnds(buf, call.at.mem, call.at.size)
  /\ device' = Append(device, buf[call.at.mem])
  /\ call' = [call EXCEPT !.at.mem = @ + 1]
  /\ UNCHANGED <<registered, who, buf, pc, fiqs, cut, result>>

EndOutput ==
  /\ pc = "output"
  /\ OutputEnds(buf, call.at.mem, call.at.size)
  /\ pc' = "idle"
  /\ result' = [kind |-> "printed", items |-> call.items, text |-> device]
  /\ UNCHANGED <<registered, who, buf, call, device, fiqs, cut>>
-----------------------------------------------------------------------------
(* A whole kprintf at once, into mem. *)
Formatted(mem, size, items) ==
  FoldLeft(LAMBDA s, i : IF Goes(s) THEN Step(s) ELSE s, Begin(mem, size, items), items)

(* c_FIQ_handler: a kprintf that nothing interrupts, in the same buffer.   *)
Fiq ==
  /\ fiqs < MaxFiq
  /\ fiqs' = fiqs + 1
  /\ buf' = IF who = "kernel" THEN Terminate(Formatted(buf, Size, FiqText)) ELSE buf
  /\ cut' = (cut \/ pc # "idle")
  /\ UNCHANGED <<registered, who, pc, call, device, result>>

(* A mistake: the answer counts the bytes stored. *)
Snprinted_stored(s) == [mem |-> IF s.remain >= 0 THEN At(s.mem, s.bufptr, Nul) ELSE s.mem, ret |-> s.bufptr]

(* The end of ksnprintf, and its answer *)
Snprinted(s) == [mem |-> IF s.remain >= 0 THEN At(s.mem, s.bufptr, Nul) ELSE s.mem, ret |-> s.size - s.remain]

(* ksnprintf, into a buffer of its caller *)
KSnprintf(size, items) ==
  /\ Ready
  /\ LET s == Formatted(Fresh(size), size, items)
     IN result' = IF s.ok THEN [kind |-> "snprintf", items |-> items, size |-> size,
                               mem |-> Snprinted(s).mem, ret |-> Snprinted(s).ret]
                  ELSE [kind |-> "failed"]
  /\ UNCHANGED <<registered, who, buf, pc, call, device, fiqs, cut>>

(* snprintf of the user library looks at the byte after each literal, one  *)
(* nobody has written yet, and adds a '\r' that it does not count if that  *)
(* byte is 11: the test is of *bufptr less 1, not of the byte before it.   *)
UserStep(s) ==
  LET t == Step(s)
  IN IF Head(s.items).conv = "text" /\ t.bufptr \in DOMAIN t.mem /\ t.mem[t.bufptr] = Vt
     THEN [t EXCEPT !.mem = At(@, t.bufptr, "CR"), !.bufptr = @ + 1] ELSE t
USnprintf(size, items, mem) ==
  /\ Ready
  /\ LET s == FoldLeft(LAMBDA t, i : IF Goes(t) THEN UserStep(t) ELSE t, Begin(mem, size, items), items)
     IN result' = IF s.ok THEN [kind |-> "usnprintf", items |-> items, size |-> size, clean |-> \A k \in DOMAIN mem : mem[k] # Vt,
                               mem |-> Snprinted(s).mem, ret |-> Snprinted(s).ret]
                  ELSE [kind |-> "failed"]
  /\ UNCHANGED <<registered, who, buf, pc, call, device, fiqs, cut>>

(* UART_16550_read: a character, echoed; after a carriage return a line    *)
(* feed too, stored if there is room.                                      *)
GetChar(s, c) ==
  IF s.done THEN s
  ELSE LET t == [s EXCEPT !.got = Append(@, c), !.echo = Append(@, c), !.done = (c = "CR" \/ Len(s.got) + 1 >= s.len)]
       IN IF c # "CR" THEN t
          ELSE [t EXCEPT !.echo = Append(@, "LF"), !.got = IF Len(t.got) < s.len THEN Append(@, "LF") ELSE @]

(* char_read of a line that the user types *)
CharRead(len, keys) ==
  /\ Ready
  /\ registered
  /\ LET s == FoldLeft(GetChar, [got |-> <<>>, echo |-> <<>>, len |-> len, done |-> FALSE], keys)
     IN /\ s.done
        /\ result' = [kind |-> "read", len |-> len, got |-> s.got, echo |-> s.echo]
  /\ UNCHANGED <<registered, who, buf, pc, call, device, fiqs, cut>>

Next == \/ CharDevInit
        \/ \E items \in Formats : \/ BeginFormat(items)
                                  \/ \E n \in Sizes : \/ KSnprintf(n, items)
                                                      \/ \E c \in {Junk, Vt} : USnprintf(n, items, [k \in Places(n) |-> c])
        \/ \E keys \in Keys, n \in Sizes : CharRead(n, keys)
        \/ FormatItem \/ BeginOutput \/ OutputByte \/ EndOutput \/ Return
        \/ Fiq

Spec == Init /\ [][Next]_vars
-----------------------------------------------------------------------------
(* The text that the header of kprintf.c promises for a format, were there *)
(* room for all of it (that the digits of a number stand for the number is *)
(* checked apart).  Here code and header disagree: before a negative       *)
(* hexadecimal number lines 34-41 promise two periods, which the code does *)
(* not make.  Such formats are held against the text without the periods.  *)
TextOf(item) == CASE item.conv \in {"text", "c"} -> <<item.arg>>
                  [] item.conv = "s" -> item.arg
                  [] item.conv \in Numeric -> Number(item)
                  [] OTHER -> <<>>
Periods(item) == IF item.conv = "x" /\ item.arg < 0 THEN <<".", ".">> ELSE <<>>
Promised(items) == FoldLeft(LAMBDA t, item : t \o Periods(item) \o TextOf(item), <<>>, items)
NoPeriods(items) == FoldLeft(LAMBDA t, item : t \o TextOf(item), <<>>, items)
PeriodsMissing(items) == \E k \in 1 .. Len(items) : Periods(items[k]) # <<>>
Text(items) == IF PeriodsMissing(items) THEN NoPeriods(items) ELSE Promised(items)

TypeOK ==
  /\ registered \in BOOLEAN
  /\ DOMAIN buf = Places(Size)
  /\ pc \in {"idle", "format", "output"}
  /\ pc = "format" => call.at.bufptr \in 0 .. Size /\ call.at.remain <= Size
  /\ pc = "output" => call.at.mem \in 0 .. Size + Beyond
  /\ fiqs \in 0 .. MaxFiq

(* A number or a string that does not fit touches at most the one byte     *)
(* behind the buffer, in kprintf, printf and ksnprintf alike, interrupted  *)
(* or not: the two cursors never drift apart while there is room.  In      *)
(* snprintf of the user library they do, where the buffer has held an 11;  *)
(* without one it keeps to the same byte.                                  *)
(* A line that is read fits the request, and is what was echoed.           *)
Untouched(mem, size) == \A k \in DOMAIN mem : k > size => mem[k] = Junk
OneByteOver ==
  /\ TypeOK
  /\ Untouched(buf, Size)
  /\ result.kind = "snprintf" => Untouched(result.mem, result.size)
  /\ result.kind = "usnprintf" /\ result.clean => Untouched(result.mem, result.size)
  /\ pc = "format" /\ call.at.remain > 0 => call.at.bufptr + call.at.remain = Size
  /\ result.kind = "read" => Len(result.got) <= result.len /\ IsPrefix(result.got, result.echo)

(* A call of kprintf or printf that no fast interrupt cuts into prints the *)
(* text that the header promises, as much of it as fits in all but one     *)
(* byte of the buffer, or in all of it when a number is what overflows.    *)
(* Of a negative hexadecimal number that is the digits alone (see Text).   *)
PrintsText ==
  result.kind = "printed" /\ ~cut =>
    LET t == Text(result.items)
    IN /\ IsPrefix(result.text, t)
       /\ Len(result.text) >= (IF Len(t) < Size THEN Len(t) ELSE Size - 1)

(* The driver stops inside the buffer, whatever a fast interrupt has done  *)
(* to the text it is printing: there is always an end to be met.           *)
OutputInside == pc = "output" => call.at.mem <= Size

(* kprintf.c:7-11 promises as the answer the length that the text would    *)
(* have with room for all of it, and: "Thus, a return value of size or     *)
(* more means that the output was truncated".  The second holds, in both   *)
(* directions, and a text that fits is all there, if the periods that the  *)
(* code does not make are not counted (see Text).  The first does not: the *)
(* answer is the length up to the end of the item that reaches the size,   *)
(* and what comes after that item in the format is not counted.            *)
TruncationTold ==
  result.kind = "snprintf" =>
    LET t == Text(result.items)
        upTo(k) == Len(Text(SubSeq(result.items, 1, k)))
    IN /\ result.ret >= result.size <=> Len(t) >= result.size
       /\ result.ret < result.size => /\ result.ret = Len(t)
                                      /\ \A k \in 1 .. Len(t) : result.mem[k - 1] = t[k]
                                      /\ result.mem[Len(t)] = Nul
       /\ result.ret >= result.size =>
            \E k \in 1 .. Len(result.items) : upTo(k - 1) < result.size /\ result.ret = upTo(k)
=============================================================================
