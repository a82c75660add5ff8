------------------------------ MODULE WasiCalls ------------------------------
(***************************************************************************)
(* Who serves the guest's calls of wasi_snapshot_preview1, and with what   *)
(* arguments: the table of src/kernel/wasmkernel.c, the rows it adds to    *)
(* the bridge, and two layers of the host, wasi_bridge.js and              *)
(* wasi_passthrough.js of packages/wasmkernel/src.  Parameters count from  *)
(* 0, as in the source.  What a call does, and what it returns, is left    *)
(* out.                                                                    *)
(***************************************************************************)
EXTENDS Integers, Sequences, Functions

\* A function of the kernel's table: how many parameters, which of them have
\* 64 bits, and the row of the bridge that serves it, if one does.
NoRow == 0
Symbol(params, wide, row) == [params |-> params, wide |-> wide, row |-> row]
InKernel(params, wide) == Symbol(params, wide, NoRow)

Symbols ==
  [fd_write |-> InKernel(4, {}),             fd_read |-> Symbol(4, {}, 1),
   fd_seek |-> InKernel(4, {1}),             fd_close |-> Symbol(1, {}, 9),
   fd_fdstat_get |-> InKernel(2, {}),        fd_prestat_get |-> Symbol(2, {}, 8),
   proc_exit |-> InKernel(1, {}),            environ_sizes_get |-> InKernel(2, {}),
   environ_get |-> InKernel(2, {}),          args_sizes_get |-> InKernel(2, {}),
   args_get |-> InKernel(2, {}),             clock_time_get |-> InKernel(3, {1}),
   poll_oneoff |-> InKernel(4, {}),          sched_yield |-> InKernel(0, {}),
   path_open |-> Symbol(9, {5, 6}, 2),       fd_readdir |-> Symbol(5, {3}, 3),
   fd_filestat_get |-> Symbol(2, {}, 4),     path_filestat_get |-> Symbol(5, {}, 5),
   fd_prestat_dir_name |-> Symbol(3, {}, 6), random_get |-> Symbol(2, {}, 7)]

\* The rows of the bridge, the first at slot 200; the host gets as many
\* arguments as the row says.
Row(name, params) == [name |-> name, params |-> params]
Rows ==
  << Row("fd_read", 4), Row("path_open", 9), Row("fd_readdir", 5),
     Row("fd_filestat_get", 2), Row("path_filestat_get", 5),
     Row("fd_prestat_dir_name", 3), Row("random_get", 2),
     Row("fd_prestat_get", 2), Row("fd_close", 1) >>

-----------------------------------------------------------------------------
(* The handlers of an empty file system: the parameters they write         *)
(* through.  proc_exit throws.                                             *)

Outs ==
  [fd_write |-> {3}, clock_time_get |-> {3}, clock_res_get |-> {1},
   fd_prestat_get |-> {1}, fd_prestat_dir_name |-> {1}, path_readlink |-> {5},
   fd_filestat_get |-> {1}, fd_fdstat_get |-> {1}, fd_read |-> {3},
   fd_pread |-> {4}, fd_readdir |-> {4}, fd_seek |-> {3}, fd_tell |-> {1},
   environ_sizes_get |-> {0, 1}, args_sizes_get |-> {0, 1}, random_get |-> {0},
   poll_oneoff |-> {3}]

Defaults == DOMAIN Outs \cup
  {"path_open", "path_filestat_get", "path_create_directory",
   "path_remove_directory", "path_unlink_file", "path_rename", "path_symlink",
   "path_link", "fd_fdstat_set_flags", "fd_close", "fd_sync", "fd_datasync",
   "fd_advise", "fd_allocate", "fd_renumber", "fd_filestat_set_size",
   "fd_filestat_set_times", "path_filestat_set_times", "environ_get", "args_get",
   "proc_exit", "proc_raise", "sched_yield", "sock_accept", "sock_recv",
   "sock_send", "sock_shutdown"}
OutsOf(name) == IF name \in DOMAIN Outs THEN Outs[name] ELSE {}

-----------------------------------------------------------------------------
(* Forwarding to the functions of the caller's WASI.                       *)

\* POINTER_ARGS, of the functions that have any and are forwarded.
Pointers ==
  [args_get |-> {0, 1}, args_sizes_get |-> {0, 1}, environ_get |-> {0, 1},
   environ_sizes_get |-> {0, 1}, clock_res_get |-> {1}, clock_time_get |-> {2},
   fd_fdstat_get |-> {1}, fd_filestat_get |-> {1}, fd_pread |-> {1, 4},
   fd_prestat_get |-> {1}, fd_prestat_dir_name |-> {1}, fd_pwrite |-> {1, 4},
   fd_read |-> {1, 3}, fd_readdir |-> {1, 4}, fd_seek |-> {3}, fd_tell |-> {1},
   fd_write |-> {1, 3}, path_create_directory |-> {1},
   path_filestat_get |-> {2, 4}, path_filestat_set_times |-> {2},
   path_link |-> {2, 5}, path_open |-> {2, 8}, path_readlink |-> {1, 3, 5},
   path_remove_directory |-> {1}, path_rename |-> {1, 4},
   path_symlink |-> {0, 2}, path_unlink_file |-> {1}, random_get |-> {0}]

Forwardable == DOMAIN Pointers \cup
  {"fd_advise", "fd_allocate", "fd_close", "fd_datasync", "fd_fdstat_set_flags",
   "fd_fdstat_set_rights", "fd_filestat_set_size", "fd_filestat_set_times",
   "fd_renumber", "fd_sync", "sched_yield"}

\* BIGINT_ARGS.
WideOnlyFirst ==  \* a bug: one of the rights of path_open is cut
  [fd_advise |-> {1, 2}, fd_allocate |-> {1, 2}, fd_filestat_set_size |-> {1},
   fd_filestat_set_times |-> {1, 2}, fd_fdstat_set_rights |-> {1, 2},
   fd_pread |-> {3}, fd_pwrite |-> {3}, fd_readdir |-> {3}, fd_seek |-> {1},
   path_filestat_set_times |-> {4, 5}, path_open |-> {5}]
Wide ==
  [fd_advise |-> {1, 2}, fd_allocate |-> {1, 2}, fd_filestat_set_size |-> {1},
   fd_filestat_set_times |-> {1, 2}, fd_fdstat_set_rights |-> {1, 2},
   fd_pread |-> {3}, fd_pwrite |-> {3}, fd_readdir |-> {3}, fd_seek |-> {1},
   path_filestat_set_times |-> {4, 5}, path_open |-> {5, 6}]

IsIn(table, name, i) == name \in DOMAIN table /\ i \in table[name]

\* What becomes of parameter i: the kernel's bridge keeps the lower half.
Forwarded(name, i) ==
  CASE IsIn(Wide, name, i) -> "whole"
    [] IsIn(Pointers, name, i) -> "translated"
    [] OTHER -> "half"
=============================================================================
