------------------------------ MODULE KernelLib ------------------------------
(***************************************************************************)
(* The kernel's library: KiCopyMemory, KiSetMemoryBytes, KiCompareMemory   *)
(* (kernel_memfuncs.c), the number formatting (kernel_binfuncs.c), the     *)
(* string length (kernel_stringfuncs.c), KiPrintFmt (kernel_printfuncs.c), *)
(* the loader's own helpers (boot.c) and the comparison of security levels *)
(* (hydrogen.c).                                                           *)
(*                                                                         *)
(* The loops over memory and over a format are actions, one for each       *)
(* round; what a number is converted to is an operator.  One call runs at  *)
(* a time.  Memory is a row of cells that at first hold their own index.   *)
(***************************************************************************)
EXTENDS Integers, Sequences, SequencesExt, Bitwise

CONSTANTS
    Cells,       \* size of the memory
    Contents,    \* the bytes KiCompareMemory finds in it
    IndexWidth,  \* bits of the 32-bit Index of two of the loops
    MaxAmount,   \* largest Amount asked for
    Places,      \* arguments Dest and Source
    Width,       \* bits of a number, 64
    Radixes,     \* arguments of KiItoaBase
    PageShift,   \* EFI_PAGE_SHIFT
    Pieces,      \* parts of formats, with what they print
    MaxPieces,   \* parts of one format
    MaxBeyond    \* bound on the bytes behind a format that are printed

VARIABLES
    call,   \* the call that runs, or the one that returned
    Index,  \* of its loop
    mem,    \* the memory
    out     \* what it gave back

vars == <<call, Index, mem, out>>

(* What is printed is a row of items: characters, line ends, arguments.    *)
Item(as, of) == [as |-> as, of |-> of]

Idle == [f |-> "none"]
Fresh == [c \in 0 .. Cells - 1 |-> c]
Init == call = Idle /\ Index = 0 /\ mem = Fresh /\ out = <<>>

Return == call' = [call EXCEPT !.done = TRUE]

-----------------------------------------------------------------------------
(* kernel_memfuncs.c *)

(* NULL is where no cell is.  KiCopyMemory and KiCompareMemory return at   *)
(* once when they get it, the latter without storing an answer;            *)
(* KiSetMemoryBytes does not look, and is not given it.                    *)
Null == Cells
Refused(f, d, s) == f \in {"copy", "compare"} /\ Null \in {d, s}

BeginMemory ==
    /\ call = Idle
    /\ \E f \in {"copy", "set", "compare"}, d \in Places \cup {Null}, s \in Places \cup {Null},
          n \in 0 .. MaxAmount :
         /\ f = "set" => Null \notin {d, s}
         /\ call' = IF Refused(f, d, s)
                     THEN [f |-> f, done |-> TRUE, Dest |-> d, Source |-> s, Amount |-> n,
                           same |-> "unset", status |-> "INVALID_MEMORY_LOCATION"]
                     ELSE [f |-> f, done |-> FALSE, Dest |-> d, Source |-> s, Amount |-> n,
                           same |-> TRUE, status |-> "SUCCESS"]
    /\ UNCHANGED <<Index, mem, out>>

(* KiCopyMemory and KiCompareMemory count with an UINT32, KiSetMemoryBytes *)
(* with an UINT64.                                                         *)
MutAdvanced(i) == (i + 4) % 2^IndexWidth
Advanced(i) == IF call.f = "set" THEN i + 4 ELSE (i + 4) % 2^IndexWidth

(* Four cells at a time, also when fewer are left; the second loop, for    *)
(* the cells left over, is never entered.                                  *)
MutMemoryRounds == Index + 4 <= call.Amount
MemoryRounds == Index < call.Amount

Quad(at) == {at + Index + k : k \in 0 .. 3}

(* One byte after the other: a cell written is read again by the next.     *)
Byte(m, k) == [m EXCEPT ![call.Dest + Index + k] = m[call.Source + Index + k]]
CopyRound ==
    /\ mem' = Byte(Byte(Byte(Byte(mem, 0), 1), 2), 3)
    /\ UNCHANGED call

Zero == 0 - 1
SetRound ==
    /\ mem' = [c \in DOMAIN mem |-> IF c \in Quad(call.Dest) THEN Zero ELSE mem[c]]
    /\ UNCHANGED call

(* What the first loop, over whole words, stores is overwritten at the end *)
(* by the conjunction of the four comparisons, same here.                  *)
Same(a, b) == Contents[a] = Contents[b]
CompareRound ==
    /\ call' = [call EXCEPT !.same = @ /\ \A k \in 0 .. 3 :
                  Same(mem[call.Dest + Index + k], mem[call.Source + Index + k])]
    /\ UNCHANGED mem

MemoryRound ==
    /\ call.f \in {"copy", "set", "compare"}
    /\ ~ call.done
    /\ MemoryRounds
    /\ \/ call.f = "copy" /\ CopyRound
       \/ call.f = "set" /\ SetRound
       \/ call.f = "compare" /\ CompareRound
    /\ Index' = Advanced(Index)
    /\ UNCHANGED out

MemoryReturn ==
    /\ call.f \in {"copy", "set", "compare"}
    /\ ~ call.done
    /\ ~ MemoryRounds
    /\ Return
    /\ UNCHANGED <<Index, mem, out>>

-----------------------------------------------------------------------------
(* kernel_binfuncs.c; characters are their codes *)

DigitOf(rem) ==
    IF rem <= 9 THEN rem + 48 ELSE IF rem < 35 THEN rem - 10 + 97 ELSE rem - 36 + 65

(* The digits, the lowest first. *)
Backwards(val, radix) ==
    LET digits[v \in 0 .. 2^Width - 1] ==
          IF v = 0 THEN <<>> ELSE <<DigitOf(v % radix)>> \o digits[v \div radix]
    IN  digits[val]

internalItoaBaseChange(val, radix) ==
    Append(IF val = 0 THEN <<48>> ELSE Reverse(Backwards(val, radix)), 0)

(* overzero is divided by an UINT64, so that it counts as unsigned.        *)
MutOverzero(val) == IF val = 0 - 2^(Width - 1) THEN 0 ELSE 0 - val
Overzero(val) == (0 - val) % 2^Width

internalSignedItoa(val) ==
    IF val >= 0 THEN internalItoaBaseChange(val, 10)
    ELSE Append(Reverse(Append(Backwards(Overzero(val), 10), 45)), 0)

(* KiGetStringLength, and what KiPrint shows of a buffer. *)
KiGetStringLength(s) == CHOOSE n \in 0 .. Len(s) - 1 :
    s[n + 1] = 0 /\ \A i \in 1 .. n : s[i] # 0
KiPrint(s) == [i \in 1 .. KiGetStringLength(s) |-> Item("char", s[i])]

(* A call that is over in one step. *)
Answer(c, result) == call' = c /\ out' = result /\ UNCHANGED <<Index, mem>>

KiItoaBase ==
    /\ call = Idle
    /\ \E v \in 0 .. 2^Width - 1, r \in Radixes :
         Answer([f |-> "unsigned", done |-> TRUE, Input |-> v, Radix |-> r],
                KiPrint(internalItoaBaseChange(v, r)))

KiItoaSigned ==
    /\ call = Idle
    /\ \E v \in 0 - 2^(Width - 1) .. 2^(Width - 1) - 1 :
         Answer([f |-> "signed", done |-> TRUE, Input |-> v, Radix |-> 10],
                KiPrint(internalSignedItoa(v)))

(* How often the number can be halved before it is below two. *)
KiLog2UInt(Input) ==
    LET halvings[v \in 0 .. 2^Width - 1] == IF v >= 2 THEN halvings[v \div 2] + 1 ELSE 0
    IN  halvings[Input]

(* Both results are stored in ResultOne, the one for -Input last;          *)
(* ResultTwo stays 0.                                                      *)
KiLog2Int(Input) == IF Input > 0 THEN KiLog2UInt((0 - Input) % 2^Width) ELSE 0

Logarithm ==
    /\ call = Idle
    /\ \/ \E v \in 0 .. 2^Width - 1 :
            Answer([f |-> "log2", done |-> TRUE, Input |-> v], <<Item("number", KiLog2UInt(v))>>)
       \/ \E v \in 0 - 2^(Width - 1) .. 2^(Width - 1) - 1 :
            Answer([f |-> "signed log2", done |-> TRUE, Input |-> v],
                   <<Item("number", KiLog2Int(v))>>)

-----------------------------------------------------------------------------
(* boot.c *)

MutPages(Bytes) == Bytes \div 2^PageShift
BytesToEfiPages(Bytes) ==
    LET pages == Bytes \div 2^PageShift
    IN  IF pages % 2^PageShift # 0 \/ pages = 0 THEN pages + 1 ELSE pages

CountPages ==
    /\ call = Idle
    /\ \E n \in 0 .. 2^(2 * PageShift + 1) :
         Answer([f |-> "pages", done |-> TRUE, Bytes |-> n],
                <<Item("number", BytesToEfiPages(n))>>)

(* The loader's copy of the conversion, to wide characters.                *)
Swapped(Buf, i) == [Buf EXCEPT ![i] = Buf[Len(Buf) - i + 1], ![Len(Buf) - i + 1] = Buf[i]]
InternalItoaBaseChange(Val, Radix) ==
    IF Val = 0 THEN <<48, 0>>
    ELSE LET Buf == Backwards(Val, Radix)
         IN  Append(FoldLeft(Swapped, Buf, [i \in 1 .. Len(Buf) \div 2 |-> i]), 0)

(* Where the loader prints a number: a status or a size. *)
PrintNumber ==
    /\ call = Idle
    /\ \E v \in 0 .. 2^Width - 1, r \in Radixes :
         Answer([f |-> "wide", done |-> TRUE, Input |-> v, Radix |-> r],
                KiPrint(InternalItoaBaseChange(v, r)))

-----------------------------------------------------------------------------
(* hydrogen.c *)

(* Untrusted, low, medium and high trust, supervisor, manager and          *)
(* administrator: each has the bits of the one before it and one more.     *)
SecurityClearanceLevel == {0, 1, 3, 7, 15, 31, 63}

CheckSecurityClearance(userHas, wanted) ==
    LET res == (userHas & wanted) % 256
    IN  (wanted % 256) - res = 0

CheckClearance ==
    /\ call = Idle
    /\ \E h \in SecurityClearanceLevel, w \in SecurityClearanceLevel :
         Answer([f |-> "clearance", done |-> TRUE, userHas |-> h, wanted |-> w],
                <<Item("answer", CheckSecurityClearance(h, w))>>)

-----------------------------------------------------------------------------
(* KiPrintFmt: an argument is printed as an item of its own, with the      *)
(* conversion that was used.                                               *)

(* A format may end in the middle of a directive: behind the percent sign, *)
(* or behind a digit.                                                      *)
Tails == {<<>>, <<37>>, <<37, 48>>}

BeginPrint ==
    /\ call = Idle
    /\ \E n \in 0 .. MaxPieces, tail \in Tails : \E ps \in [1 .. n -> Pieces] :
         call' = [f |-> "print", done |-> FALSE, pieces |-> ps, tail |-> tail,
                  up |-> FALSE, args |-> 0,
                  fmt |-> FoldLeft(LAMBDA s, p : s \o p.fmt, <<>>, ps) \o tail \o <<0>>]
    /\ UNCHANGED <<Index, mem, out>>

(* The character at Index, and whether the next one is looked at too. *)
Cur == call.fmt[Index + 1]
IsDigit(c) == c \in 48 .. 57

Conversion(c) ==
    CASE c = 115 -> "string" [] c \in {105, 108} -> "signed" [] c = 117 -> "unsigned"
      [] c = 120 -> "hex"
Converts(c) == c \in {115, 105, 108, 117, 120}

Emit(items) == out' = out \o items
Times(n, item) == [k \in 1 .. n |-> item]

(* Behind a percent sign.  A digit is printed as often as the character    *)
(* behind it says, and what follows the two is text again; when the        *)
(* terminator is behind it, the walk goes on behind that.                  *)
MutPrintDirective ==
    /\ \/ /\ Converts(Cur)
          /\ Emit(<<Item(Conversion(Cur), call.args + 1)>>)
          /\ call' = [call EXCEPT !.args = @ + 1, !.up = FALSE]
       \/ /\ ~ Converts(Cur)
          /\ Emit(IF Cur = 37 THEN <<Item("char", 37)>> ELSE <<>>)
          /\ call' = [call EXCEPT !.up = (Cur = 37)]
    /\ Index' = Index + 1
PrintDirective ==
    \/ /\ Converts(Cur)
       /\ Emit(<<Item(Conversion(Cur), call.args + 1)>>)
       /\ call' = [call EXCEPT !.args = @ + 1, !.up = FALSE]
       /\ Index' = Index + 1
    \/ /\ ~ Converts(Cur) /\ ~ IsDigit(Cur)
       /\ Emit(IF Cur = 37 THEN <<Item("char", 37)>> ELSE <<>>)
       /\ call' = [call EXCEPT !.up = FALSE]
       /\ Index' = Index + 1
    \/ /\ IsDigit(Cur)
       /\ LET count == call.fmt[Index + 2]
          IN  Emit(IF count = 0 THEN <<>>
                   ELSE Times((count - 48) % 256, Item("char", Cur)))
       /\ call' = [call EXCEPT !.up = FALSE]
       /\ Index' = Index + 2

PrintPlain ==
    /\ Emit(IF Cur >= 32 THEN <<Item("char", Cur)>>
            ELSE IF Cur = 10 THEN <<Item("line", 0)>>
            ELSE IF Cur = 9 THEN Times(8, Item("char", 32)) ELSE <<>>)
    /\ Index' = Index + 1
    /\ UNCHANGED call

(* Behind the terminator the bytes are not the format's any more: any of   *)
(* them may be printed, and any may be the zero that ends the walk.        *)
InFormat == Index < Len(call.fmt)
PrintBeyond ==
    /\ call.f = "print"
    /\ ~ call.done
    /\ ~ InFormat /\ Index < Len(call.fmt) + MaxBeyond
    /\ Emit(<<Item("stray", 0)>>)
    /\ Index' = Index + 1
    /\ UNCHANGED <<call, mem>>

PrintRound ==
    /\ call.f = "print"
    /\ ~ call.done
    /\ InFormat /\ Cur # 0
    /\ \/ Cur = 37 /\ ~ call.up /\ call' = [call EXCEPT !.up = TRUE]
          /\ Index' = Index + 1 /\ UNCHANGED out
       \/ call.up /\ PrintDirective
       \/ ~ call.up /\ Cur # 37 /\ PrintPlain
    /\ UNCHANGED mem

PrintReturn ==
    /\ call.f = "print"
    /\ ~ call.done
    /\ InFormat => Cur = 0
    /\ Return
    /\ UNCHANGED <<Index, mem, out>>

-----------------------------------------------------------------------------
(* The caller takes the result, and its memory is fresh for the next call. *)
Take ==
    /\ call.f # "none" /\ call.done
    /\ call' = Idle /\ Index' = 0 /\ mem' = Fresh /\ out' = <<>>

Round == MemoryRound \/ MemoryReturn \/ PrintRound \/ PrintBeyond \/ PrintReturn
Next ==
    \/ BeginMemory \/ KiItoaBase \/ KiItoaSigned \/ Logarithm \/ CountPages \/ PrintNumber
    \/ CheckClearance \/ BeginPrint \/ Round \/ Take

(* A call runs on until it returns. *)
Spec == Init /\ [][Next]_vars /\ WF_vars(Round)

-----------------------------------------------------------------------------
(* Properties *)

RoundedUp(n) == ((n + 3) \div 4) * 4
Overlap == call.Source < call.Dest /\ call.Dest < call.Source + RoundedUp(call.Amount)

(* After a memory call every cell asked for has what it should have, no    *)
(* cell behind the next multiple of four has changed, and a comparison     *)
(* says that two areas are the same only if they are, and says it whenever *)
(* they are the same up to that multiple.  The copy moves upwards, so that *)
(* a destination inside the source, with the rounding included, is left    *)
(* out.  A call with NULL touches nothing, answers nothing and says so.    *)
MemoryCallsExact ==
    call.f \in {"copy", "set", "compare"} /\ call.done =>
      IF Null \in {call.Dest, call.Source}
      THEN mem = Fresh /\ call.status # "SUCCESS" /\ call.same = "unset"
      ELSE
        LET n == call.Amount
            wanted(c) == CASE call.f = "copy" -> c - call.Dest + call.Source
                           [] call.f = "set" -> Zero
                           [] call.f = "compare" -> c
            equal(m) == \A k \in 0 .. m - 1 : Same(call.Dest + k, call.Source + k)
        IN  /\ ~ (call.f = "copy" /\ Overlap) =>
                 \A c \in call.Dest .. call.Dest + n - 1 : mem[c] = wanted(c)
            /\ \A c \in DOMAIN mem :
                 c < call.Dest \/ c >= call.Dest + RoundedUp(n) => mem[c] = c
            /\ call.f = "compare" =>
                 (call.same => equal(n)) /\ (equal(RoundedUp(n)) => call.same)

(* Every call returns: the 32-bit index of the copy and of the comparison  *)
(* reaches every Amount up to 2^32 - 4 (from 2^32 - 3 on it wraps first,   *)
(* and they never end), and the format is always walked to its end, or to  *)
(* the next zero behind it.                                                *)
CallsReturn ==
    (call.f # "none" /\ (call.f \in {"copy", "compare"} => call.Amount <= 2^IndexWidth - 4))
        ~> (call.f # "none" /\ call.done)

ValueOf(c) == IF c \in 48 .. 57 THEN c - 48 ELSE c - 97 + 10
Read(text, radix) == FoldLeft(LAMBDA n, c : n * radix + ValueOf(c.of), 0, text)

(* What is printed for a number is its usual notation: read back it is the *)
(* number again, the most negative one included, it has no leading zero,   *)
(* and only a negative number has a sign.                                  *)
NumbersReadBack ==
    call.f \in {"signed", "unsigned", "wide"} =>
        LET negative == call.Input < 0
            text == IF negative THEN Tail(out) ELSE out
        IN  /\ Len(text) > 0
            /\ negative => Head(out).of = 45
            /\ Read(text, call.Radix) = IF negative THEN 0 - call.Input ELSE call.Input
            /\ Head(text).of = 48 => Len(text) = 1

(* The pages asked of the firmware hold all the bytes ("The amount, in     *)
(* bytes, to have allocated", boot.c:206), except that the bytes left over *)
(* get no page when the whole pages are a multiple of a page of pages:     *)
(* from 16 MiB + 1 on the count can be one short, and never more.          *)
LeftOver == call.Bytes % 2^PageShift
WholePages == call.Bytes \div 2^PageShift
PagesSuffice ==
    call.f = "pages" =>
        LET short == LeftOver > 0 /\ WholePages > 0 /\ WholePages % 2^PageShift = 0
            held == out[1].of * 2^PageShift
        IN  /\ out[1].of > 0
            /\ (held >= call.Bytes) = ~ short
            /\ short => out[1].of = WholePages

(* The logarithm of an unsigned number is rounded down, as the comment of   *)
(* KiLog2UInt says, for the largest number too.                             *)
IsLogarithm(log, n) == IF n = 0 THEN log = 0 ELSE 2^log <= n /\ n < 2^(log + 1)
LogarithmRoundsDown == call.f = "log2" => IsLogarithm(out[1].of, call.Input)

(* KiLog2Int "Takes the logarithm of the absolute value of a number by the  *)
(* base 2" (kernel_binfuncs.c:33): of all numbers it does so for 0 and -1,  *)
(* whose logarithms are 0.                                                  *)
SignedLogarithm ==
    call.f = "signed log2" =>
        (IsLogarithm(out[1].of, IF call.Input < 0 THEN 0 - call.Input ELSE call.Input)
            <=> call.Input \in {0 - 1, 0})

(* A user is cleared for the levels up to its own, and for no other.        *)
ClearanceIsAnOrder ==
    call.f = "clearance" => out[1].of = (call.userHas >= call.wanted)

(* The helpers compute what they should, at the ends of their ranges too,  *)
(* and where they do not is known exactly: BytesToEfiPages beyond 16 MiB,  *)
(* and KiLog2Int; KiLog2UInt and the comparison of levels are right for    *)
(* every argument.                                                         *)
HelpersAreExact ==
    PagesSuffice /\ LogarithmRoundsDown /\ SignedLogarithm /\ ClearanceIsAnOrder

(* A format prints what its parts print, one behind the other: a directive *)
(* ends with its letter, takes the next argument and no other, "%%" starts *)
(* no directive, and a digit repeats itself, takes no argument and leaves  *)
(* the letter behind its count as text, as the FIXME at                    *)
(* kernel_printfuncs.c:220 has it.  Only a format that ends in a percent   *)
(* sign and a digit is walked past its terminator; one that ends in a      *)
(* percent sign prints nothing for it.                                     *)
FormatsExpand ==
    call.f = "print" /\ call.done =>
        LET expected == FoldLeft(LAMBDA s, p :
                            IF p.takes = "" THEN [s EXCEPT !.items = @ \o p.prints]
                            ELSE [items |-> Append(s.items, Item(p.takes, s.args + 1)),
                                  args |-> s.args + 1],
                        [items |-> <<>>, args |-> 0], call.pieces)
        IN  /\ IsPrefix(expected.items, out)
            /\ Len(call.tail) < 2 => out = expected.items /\ InFormat
=============================================================================
