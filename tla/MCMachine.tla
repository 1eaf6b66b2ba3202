------------------------------ MODULE MCMachine ------------------------------
(***************************************************************************)
(* Two programs, with the values of interrupt_test.go, of the keyboard     *)
(* reset that ppi.go describes and of the DMA set-up of dma_test.go.       *)
(***************************************************************************)
EXTENDS MachineProps, TLC

Output(p, v) == [op |-> "OUT", port |-> p, value |-> v]
Input(p) == [op |-> "IN", port |-> p]
GOTO(t) == [op |-> "JMP", target |-> t]
Do(o) == [op |-> o]

\* A boot program in the order of the BIOS, an INT 8 that ends its interrupt and
\* returns, and an INT 9 that enables interrupts early, acknowledges the code
\* with a pulse on PB7 and takes it after its EOI.
Boot ==
  [code |->
     << Output(128, 1), Do("CLI"),
        Output(32, 19), Output(33, 8), Output(33, 1), Output(33, 252),   \* PIC: base 8, IRQ0 and IRQ1
        Output(67, 54), Output(64, 1), Output(64, 5),                \* timer: period 41 = 5 * 8 + 1
        Output(97, 8), Output(97, 200),                           \* keyboard: PB6 low, then PB6 and PB7
        Input(96),                                             \* the switches
        Output(97, 72),                                        \* PB7 low
        Do("STI"),
        Do("HLT"), Do("CLI"), Input(33), Do("STI"), GOTO(15),  \* 15: the main loop
        \* 20: INT 8
        Output(32, 32), Do("IRET"),
        \* 22: INT 9
        Do("STI"), Input(96), Output(97, 200), Output(97, 72), Output(32, 32), Do("TAKE"), Do("IRET") >>,
   handlers |-> [vector \in Byte |-> IF vector = 9 THEN 22 ELSE 20],
   keys |-> <<30, 158, 31>>]

\* The DMA test of the POST: the program sets up the refresh channel and counter
\* 1, and polls the status register for the terminal count of channel 0, while
\* the timer interrupts it.
DMATest ==
  [code |->
     << Output(32, 19), Output(33, 8), Output(33, 1), Output(33, 254),   \* PIC: base 8, IRQ0
        Output(67, 54), Output(64, 3), Output(64, 3),                \* counter 0: period 27
        Output(13, 0), Output(11, 88), Output(1, 2), Output(1, 3),     \* DMA: clear, mode, count 26
        Output(10, 0), Output(131, 0),
        Output(67, 84), Output(65, 3),                              \* counter 1: period 3, LSB only
        Do("STI"),
        Input(8), [op |-> "JZ", target |-> 17],                    \* 17: poll
        Input(1), Input(1), Input(131), Input(128), GOTO(17),
        \* 24: INT 8
        Output(32, 32), Do("IRET") >>,
   handlers |-> [vector \in Byte |-> 24],
   keys |-> <<>>]

MCSoftware == {Boot, DMATest}
=============================================================================
