------------------------------ MODULE MCPanel ------------------------------
EXTENDS Panel

\* Nothing, a whole QR, one with a row too short, one with what is no module.
MCMatrix == {<< >>, << <<0, 1>>, <<1, 0>> >>, << <<0, 1>>, <<1>> >>, << <<7>> >>}

\* Each kind of device may appear, gain and lose its rights, and go.
MCOutside == {o \in Op : o.op \in {"register", "createPaired", "setCapability", "revoke", "unblock"}}
=============================================================================
