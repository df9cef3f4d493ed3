------------------------------ MODULE MCIndex ------------------------------
(* Small media: a few packets, with the index in one of the versions.      *)
EXTENDS Index

CONSTANTS u1, u2, j1, j2
MCInputs == {u1, u2}
MCJobs == {j1, j2}

Setup(version, type, known, direct, images, sounds, inputs) ==
  [version |-> version, type |-> type, known |-> known, direct |-> direct,
   video |-> images, audio |-> sounds, inputs |-> inputs]

\* One stream and a direct muxer; then two streams, with the index of either.
MCSetups == {Setup(4, 1, FALSE, TRUE, 3, 0, {u1}), Setup(4, 2, FALSE, TRUE, 0, 3, {u1}),
             Setup(2, 1, FALSE, TRUE, 3, 0, {u1}), Setup(4, 1, TRUE, TRUE, 2, 0, {u1}),
             Setup(4, 1, FALSE, TRUE, 2, 0, {u1, u2}),
             Setup(4, 1, FALSE, FALSE, 2, 1, {u1}), Setup(4, 2, FALSE, FALSE, 1, 2, {u1})}

\* As store_awi writes.
MCStoreAwi == {Setup(3, 1, FALSE, TRUE, 3, 0, {u1})}
=============================================================================
