----------------------------- MODULE MCHostStart -----------------------------
(* HostStart on a small instance. *)
EXTENDS HostStart
Env(name) == Import("env", name)
MCGuests ==
  { [row \in DOMAIN Rows |-> Import(Wasi, Rows[row].name)]
      \o <<Import(Wasi, "fd_write"), Import(Wasi, "fd_tell")>>,
    <<Env("n1"), Import("napi", "n2"), Import(Wasi, "fd_read"), Env("x")>>,
    <<Env("n2"), Import("other", "long x"), Import(Threads, Spawn),
      Import(Threads, "thread-exit"),
      Import(Wasi, "path_open"), Env("n1")>>,
    <<Import("emnapi", "n2"), Env("x"), Import("other", "x"), Env("n1")>> }
\* "x" stands for the first 63 bytes of the longer name.
MCCuts == [name \in {"long x"} |-> "x"]
\* struct_4, impl_13 and one without a number.
MCRegisters == {<<13, 4, 99>>, <<4, 13>>, <<>>}
MCNapiMethods == {"n1", "n2"}
MCHostWasi == Forwardable \ {"fd_read", "random_get"}
MCUserWasi == {"fd_close", "fd_write"}
=============================================================================
