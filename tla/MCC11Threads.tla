---------------------------- MODULE MCC11Threads ----------------------------
(* Three threads; two ticks make a millisecond, and time-outs have two bits. *)
EXTENDS C11Threads
CONSTANTS main, t1, t2
MCThreads == {main, t1, t2}
MCDeadlines == {3, 12}

\* The functions that share state, together.
MCPrograms ==
  {{"thrd_create", "thrd_join", "thrd_detach"},
   {"mtx_lock", "cnd_timedwait", "cnd_signal"},
   {"mtx_lock", "mtx_trylock", "cnd_wait", "cnd_broadcast"},
   {"thrd_create", "mtx_lock", "cnd_wait", "cnd_signal"},
   {"thrd_create", "call_once", "tss_set", "tss_delete"}}
=============================================================================
