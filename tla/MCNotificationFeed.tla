---- MODULE MCNotificationFeed ----
EXTENDS NotificationFeed, TLC

(* Sockets and refreshes are names without an order. *)
Interchangeable == Permutations(Sockets) \cup Permutations(Fetches)
====
