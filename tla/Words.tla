-------------------------------- MODULE Words --------------------------------
(***************************************************************************)
(* The words of memory, four bytes that hold an instruction or a number.   *)
(* A number up to 9999 is kept as four decimal digits, a larger one in     *)
(* binary, and only the first byte tells ReadRAM (RAM.c) which it reads.   *)
(***************************************************************************)
EXTENDS Integers

CONSTANT WORD      \* values of a u_int32_t (2^32)

ASSUME WordAssumption == WORD \in Nat /\ WORD > 9999

Zero == 48         \* the character 0
Nine == 57

\* The bytes of a number, byte1 first: in decimal digits, and in binary.
Digits(n) ==
  <<((n \div 1000) % 10) + Zero, ((n \div 100) % 10) + Zero,
    ((n \div 10) % 10) + Zero, (n % 10) + Zero>>

Binary(n) ==
  <<(n \div 16777216) % 256, (n \div 65536) % 256, (n \div 256) % 256, n % 256>>

BinaryValue(b) == b[1] * 16777216 + b[2] * 65536 + b[3] * 256 + b[4]

DigitValue(b) ==
  (b[1] - Zero) * 1000 + (b[2] - Zero) * 100 + (b[3] - Zero) * 10 + (b[4] - Zero)

\* StoreReg, and what RegToStack and the stack instructions store.
Stored(n) == IF n <= 9999 THEN Digits(n) ELSE Binary(n)
Pushed(n) == Digits(n)

\* ReadRAM.
Number(b) ==
  IF b = <<0, 0, 0, 0>> THEN 0
  ELSE IF b[1] <= Nine THEN DigitValue(b) % WORD
  ELSE BinaryValue(b)
=============================================================================
