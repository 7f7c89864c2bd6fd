------------------------------ MODULE Format ------------------------------
(***************************************************************************)
(* drivers/char/uart.c: one uart_printf, character by character, and the   *)
(* UART it feeds.  A character is a string of length one.  int and         *)
(* uint64_t have few values here; int wraps as in the build.               *)
(***************************************************************************)
EXTENDS Integers, Sequences, SequencesExt

CONSTANTS IntValues,  \* values of an int, 2^32
          FifoSize,   \* characters the transmit FIFO holds
          MaxFormat,  \* longest format string
          Ints, Longs \* words printed with %d and %l

ASSUME FormatAssumption ==
    /\ IntValues \in Nat \ {0} /\ IntValues % 2 = 0
    /\ FifoSize \in Nat \ {0} /\ MaxFormat \in Nat
    /\ Ints \subseteq Int /\ Longs \subseteq Nat

VARIABLES fmt,        \* the format
          args,       \* the arguments va_arg has taken: conversion and value
          mode,       \* the function and the loop the call is in
          i,          \* index into fmt
          d,          \* what is left of the number being printed
          buf,        \* its digits so far, the lowest first
          s,          \* what uart_puts has still to print
          on,         \* the UART is enabled
          fifo,       \* its transmit FIFO
          wire        \* what it has sent

vars == <<fmt, args, mode, i, d, buf, s, on, fifo, wire>>

NUL    == "NUL"
IntMin == -(IntValues \div 2)
Wrap(n) == ((n - IntMin) % IntValues) + IntMin     \* n as an int
Digit(n) == <<"0", "1", "2", "3", "4", "5", "6", "7", "8", "9">>[n + 1]
At(k) == IF k < Len(fmt) THEN fmt[k + 1] ELSE NUL

Init ==
    /\ fmt \in UNION {[1 .. n -> {"x", "%", "c", "d", "l", "s"}] : n \in 0 .. MaxFormat}
    /\ args = << >>
    /\ mode = "uart_init"
    /\ i = 0 /\ d = 0 /\ buf = << >> /\ s = << >>
    /\ on = FALSE /\ fifo = << >> /\ wire = << >>

-----------------------------------------------------------------------------
\* uart_init: off while it is configured, then enabled with its FIFO.
UartInit ==
    /\ mode = "uart_init"
    /\ on' = TRUE
    /\ mode' = "printf"
    /\ UNCHANGED <<fmt, args, i, d, buf, s, fifo, wire>>

\* The status is not looked at: a full FIFO loses the character.
UartPutc_NoWait(c) ==
    /\ fifo' = IF Len(fifo) < FifoSize THEN Append(fifo, c) ELSE fifo
    /\ UNCHANGED <<fmt, on, wire>>

\* uart_putc waits while the flag says that the FIFO is full.
UartPutc(c) ==
    /\ Len(fifo) < FifoSize
    /\ fifo' = Append(fifo, c)
    /\ UNCHANGED <<fmt, on, wire>>

\* The loop of uart_printf: a character that is not % is printed.
Plain ==
    /\ mode = "printf" /\ i < Len(fmt) /\ At(i) # "%"
    /\ UartPutc(At(i))
    /\ i' = i + 1
    /\ UNCHANGED <<args, mode, d, buf, s>>

\* A conversion takes an argument of its type.
Conversion(cs, values) ==
    /\ mode = "printf" /\ i < Len(fmt) /\ At(i) = "%" /\ At(i + 1) \in cs
    /\ i' = i + 2
    /\ \E v \in values : args' = Append(args, [conversion |-> At(i + 1), value |-> v])

PercentC ==
    /\ Conversion({"c"}, {"c"})
    /\ UartPutc(Last(args').value)
    /\ UNCHANGED <<mode, d, buf, s>>

PercentD ==
    /\ Conversion({"d"}, {Wrap(w) : w \in Ints})
    /\ d' = Last(args').value
    /\ mode' = "int2str"
    /\ UNCHANGED <<fmt, buf, s, on, fifo, wire>>

PercentL ==
    /\ Conversion({"l"}, Longs)
    /\ d' = Last(args').value
    /\ mode' = "uint2str"
    /\ UNCHANGED <<fmt, buf, s, on, fifo, wire>>

\* Any other conversion, a second % and the end of the string too, takes a
\* string and prints it.
PercentS ==
    /\ Conversion({"s", "x", "%", NUL}, {<< >>, <<"s", "%">>})
    /\ s' = Last(args').value
    /\ mode' = "uart_puts"
    /\ UNCHANGED <<fmt, d, buf, on, fifo, wire>>

Puts ==
    \/ /\ mode = "uart_puts" /\ s # << >>
       /\ UartPutc(Head(s))
       /\ s' = Tail(s)
       /\ UNCHANGED <<args, mode, i, d, buf>>
    \/ /\ mode = "uart_puts" /\ s = << >>
       /\ mode' = "printf"
       /\ UNCHANGED <<fmt, args, i, d, buf, s, on, fifo, wire>>

Zero ==
    /\ mode \in {"int2str", "uint2str"} /\ d = 0
    /\ UartPutc("0")
    /\ mode' = "printf"
    /\ UNCHANGED <<args, i, d, buf, s>>

UintStart ==
    /\ mode = "uint2str" /\ d # 0
    /\ mode' = "digits"
    /\ UNCHANGED <<fmt, args, i, d, buf, s, on, fifo, wire>>

\* int2str negates, which leaves the lowest int as it is.
IntStart ==
    /\ mode = "int2str" /\ d # 0
    /\ IF d < 0 THEN UartPutc("-") ELSE UNCHANGED <<fmt, on, fifo, wire>>
    /\ d' = IF d < 0 THEN Wrap(-d) ELSE d
    /\ mode' = "digits"
    /\ UNCHANGED <<args, i, buf, s>>

\* The last digit left in the buffer.
Digits_KeepLast ==
    /\ mode = "digits"
    /\ IF d > 9 THEN /\ buf' = Append(buf, Digit(d % 10))
                     /\ d' = d \div 10
                     /\ UNCHANGED mode
       ELSE mode' = "emit" /\ UNCHANGED <<d, buf>>
    /\ UNCHANGED <<fmt, args, i, s, on, fifo, wire>>

\* The loop over the digits, in both functions.
Digits ==
    /\ mode = "digits"
    /\ IF d > 0 THEN /\ buf' = Append(buf, Digit(d % 10))
                     /\ d' = d \div 10
                     /\ UNCHANGED mode
       ELSE mode' = "emit" /\ UNCHANGED <<d, buf>>
    /\ UNCHANGED <<fmt, args, i, s, on, fifo, wire>>

Emit ==
    \/ /\ mode = "emit" /\ buf # << >>
       /\ UartPutc(Last(buf))
       /\ buf' = Front(buf)
       /\ UNCHANGED <<args, mode, i, d, s>>
    \/ /\ mode = "emit" /\ buf = << >>
       /\ mode' = "printf"
       /\ UNCHANGED <<fmt, args, i, d, buf, s, on, fifo, wire>>

Printf ==
    \/ UartInit \/ Plain \/ PercentC \/ PercentD \/ PercentL \/ PercentS
    \/ Puts \/ Zero \/ UintStart \/ IntStart \/ Digits \/ Emit

\* The UART sends when it is enabled.
Send ==
    /\ on /\ fifo # << >>
    /\ wire' = Append(wire, Head(fifo))
    /\ fifo' = Tail(fifo)
    /\ UNCHANGED <<fmt, args, mode, i, d, buf, s, on>>

Next == Printf \/ Send

\* The processor runs the call, and the line sends what is in the FIFO.
Spec == Init /\ [][Next]_vars /\ WF_vars(Printf) /\ WF_vars(Send)

-----------------------------------------------------------------------------
\* What a call with these arguments should print, as far as they are taken.
Decimal[n \in Nat] ==
    IF n < 10 THEN <<Digit(n)>> ELSE Append(Decimal[n \div 10], Digit(n % 10))

Text(a) ==
    CASE a.conversion = "c" -> <<a.value>>
      [] a.conversion = "l" -> Decimal[a.value]
      [] a.conversion = "d" -> IF a.value < 0 THEN <<"-">> \o Decimal[-a.value]
                               ELSE Decimal[a.value]
      [] OTHER -> a.value

\* From character k of the format and argument n on.
TextFrom(as) ==
    LET From[k \in Nat] ==
            [n \in Nat |->
                IF k >= Len(fmt) THEN << >>
                ELSE IF At(k) # "%" THEN <<At(k)>> \o From[k + 1][n]
                ELSE IF n >= Len(as) THEN << >>
                ELSE Text(as[n + 1]) \o From[k + 2][n + 1]]
    IN  From

Expected == TextFrom(args)[0][0]

\* int2str prints a - and no digit for the lowest int.
NoIntMin ==
    \A n \in DOMAIN args : args[n].conversion = "d" => args[n].value # IntMin

\* What reaches the line is right from its first character: numbers with all
\* their digits in order, strings that hold a % unread, nothing lost to a full
\* FIFO.
OutputIsPrefix == NoIntMin => IsPrefix(wire \o fifo, Expected)

\* The call ends, even for the lowest int, and all it printed is sent.
AllSent == <>(/\ mode = "printf" /\ i >= Len(fmt) /\ fifo = << >>
              /\ NoIntMin => wire = Expected)
=============================================================================
