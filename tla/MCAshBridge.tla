---------------------------- MODULE MCAshBridge ----------------------------
(* Small instances of AshBridge for TLC. *)
EXTENDS AshBridgeProps

NoBudget == [k \in Budgets |-> 0]

\* One client: a command and its repetition, two callbacks, a second RST, a
\* lost frame, a stray NAK and a hangup.
SessionLimit ==
    [NoBudget EXCEPT !["rst"] = 2, !["cmd"] = 1, !["retx"] = 1, !["lose"] = 1,
                     !["nak"] = 1, !["callback"] = 2, !["hang"] = 1]

\* Two clients, of which one may hang up, more callbacks than one drain takes,
\* a failing SPI transaction and an NCP that resets by itself.
LiveLimit ==
    [NoBudget EXCEPT !["rst"] = 1, !["cmd"] = 1, !["hang"] = 1, !["callback"] = 2,
                     !["fault"] = 1, !["crash"] = 1, !["kept"] = 1, !["idle"] = 1]

HangupLimit == [NoBudget EXCEPT !["hang"] = 1]
=============================================================================
