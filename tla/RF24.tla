-------------------------------- MODULE RF24 --------------------------------
(***************************************************************************)
(* libraries/MySensors-2.0/drivers/RF24: the nRF24L01+ chip as its driver  *)
(* sees it, and the commands of RF24_sendMessage(). A command of the main  *)
(* loop is a step of its own: it may be cut in two by an interrupt that    *)
(* sends as well, and whose first bytes then end up in the open command.   *)
(***************************************************************************)
EXTENDS Naturals, Sequences

CONSTANT None   \* no payload, no result

ASSUME NoneAssumption == None \notin {"tx_ds", "max_rt"}

\* What the SPI commands of the driver leave in the chip. Addresses are
\* written by their lowest byte only (RF24_setPipeLSB): "broken" is an address
\* whose other bytes were overwritten.
Radio(Payload) ==
  [mode : {"PRX", "PTX", "down"}, ce : BOOLEAN,
   rx_addr : {"own", "next", "broken"}, tx_addr : {"next", "broken"},
   tx_fifo : Payload \cup {None}, tx_ds : BOOLEAN, max_rt : BOOLEAN]

SetLSB(address, to) == IF address = "broken" THEN "broken" ELSE to

\* RF24_initialize() writes whole addresses and empties the FIFOs; the node
\* listens on its own address from transportSetAddress() on.
RF24_initialize ==
  [mode |-> "PRX", ce |-> TRUE, rx_addr |-> "own", tx_addr |-> "next",
   tx_fifo |-> None, tx_ds |-> FALSE, max_rt |-> FALSE]

RF24_powerDown(r) == [r EXCEPT !.ce = FALSE, !.mode = "down"]

Listening(r) == r.mode = "PRX" /\ r.ce /\ r.rx_addr = "own"

-----------------------------------------------------------------------------
\* The chip.

Transmits(r) ==
  r.mode = "PTX" /\ r.ce /\ r.tx_fifo # None /\ ~r.tx_ds /\ ~r.max_rt

\* What a transmission with its retries comes to: the next node hears the
\* payload or not, and its acknowledge, which comes back on pipe 0, is heard
\* or not.
Transmission(r) ==
  {[radio |-> IF o.acked THEN [r EXCEPT !.tx_ds = TRUE, !.tx_fifo = None]
                         ELSE [r EXCEPT !.max_rt = TRUE],
    heard |-> IF o.heard THEN r.tx_fifo ELSE None,
    acked |-> o.acked] :
   o \in {x \in [heard : BOOLEAN, acked : BOOLEAN] :
     /\ x.heard => r.tx_addr = "next"
     /\ x.acked => x.heard /\ r.rx_addr = "next"}}

-----------------------------------------------------------------------------
\* The commands of RF24_sendMessage(), in their order. "poll" is repeated until
\* the transmission has ended or the poll has counted down.
Commands ==
  <<"ce_stop", "ptx", "rx_next", "tx_next", "flush", "payload", "ce_high", "poll",
    "ce_idle", "clear", "flush_failed", "prx", "rx_own", "ce_listen">>

\* Commands that are more than the level of a pin can be interrupted inside.
OnSPI(command, status) ==
  /\ command \notin {"ce_stop", "ce_high", "ce_idle", "ce_listen"}
  /\ command = "flush_failed" => status = "max_rt"

Executed(command, r, p, status) ==
  CASE command \in {"ce_stop", "ce_idle"}    -> [r EXCEPT !.ce = FALSE]
    [] command \in {"ce_high", "ce_listen"}  -> [r EXCEPT !.ce = TRUE]
    [] command = "ptx"       -> [r EXCEPT !.mode = "PTX"]
    [] command = "rx_next"   -> [r EXCEPT !.rx_addr = SetLSB(@, "next")]
    [] command = "tx_next"   -> [r EXCEPT !.tx_addr = SetLSB(@, "next")]
    [] command = "flush"     -> [r EXCEPT !.tx_fifo = None]
    [] command = "payload"   -> [r EXCEPT !.tx_fifo = p]
    [] command = "poll"      -> r
    [] command = "clear"     -> [r EXCEPT !.tx_ds = FALSE, !.max_rt = FALSE]
    [] command = "flush_failed" -> IF status = "max_rt" THEN [r EXCEPT !.tx_fifo = None] ELSE r
    [] command = "prx"       -> [r EXCEPT !.mode = "PRX"]
    [] command = "rx_own"    -> [r EXCEPT !.rx_addr = SetLSB(@, "own")]

\* The chip after an interrupt has sent its first write, that of the mode,
\* into an open command. Its bytes become data of that command: a mode that
\* is switched off or on, address bytes that no later write restores.
Spliced(command, r) ==
  CASE command \in {"ptx", "prx"}      -> {[r EXCEPT !.mode = m] : m \in {"PTX", "down"}}
    [] command \in {"rx_next", "rx_own"} -> {[r EXCEPT !.rx_addr = "broken"]}
    [] command = "tx_next"             -> {[r EXCEPT !.tx_addr = "broken"]}
    [] OTHER                           -> {r}

-----------------------------------------------------------------------------
\* A whole RF24_sendMessage() with interrupts off. When it finds an open command
\* on the bus, its write of the mode is lost in it.

\* Ready to transmit: listening stopped, addresses set, payload written. The
\* status register still holds what the interrupted code has not cleared.
Prepared(r, p, bus) ==
  [r EXCEPT !.mode = IF bus = "open" THEN @ ELSE "PTX", !.ce = TRUE,
            !.rx_addr = SetLSB(@, "next"), !.tx_addr = SetLSB(@, "next"),
            !.tx_fifo = p]

\* Faulty: the result of this transmission stays in the status register.
FinishedUncleared(r) ==
  [r EXCEPT !.mode = "PRX", !.ce = TRUE, !.rx_addr = SetLSB(@, "own"),
            !.tx_fifo = IF r.max_rt THEN None ELSE @]

\* Status cleared, a failed payload flushed, listening again.
Finished(r) ==
  [r EXCEPT !.mode = "PRX", !.ce = TRUE, !.rx_addr = SetLSB(@, "own"),
            !.tx_fifo = IF r.max_rt THEN None ELSE @,
            !.tx_ds = FALSE, !.max_rt = FALSE]

\* With an old result in the status register the poll ends at once, and the
\* chip is back in receive mode before its transmitter has settled; in the
\* wrong mode nothing is transmitted, and the poll ends by its count.
RF24_sendMessage(r, p, bus) ==
  LET ready == Prepared(r, p, bus)
  IN  IF Transmits(ready)
      THEN {[radio |-> Finished(t.radio), heard |-> t.heard, ok |-> t.acked] :
              t \in Transmission(ready)}
      ELSE {[radio |-> Finished(ready), heard |-> None, ok |-> ready.tx_ds]}
=============================================================================
