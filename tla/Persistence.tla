----------------------------- MODULE Persistence -----------------------------
(***************************************************************************)
(* What the services rely on when they keep an entity in memory and hand   *)
(* it to the TypeORM repository.  No entity has a version column and no    *)
(* query takes a pessimistic lock, so every transaction runs at            *)
(* PostgreSQL's READ COMMITTED: each statement sees the rows committed     *)
(* before it, plus the transaction's own writes.                           *)
(***************************************************************************)

(* Repository.save(entity) first loads the row again, compares it column   *)
(* by column with the entity in memory, and updates the columns that       *)
(* differ.  The UPDATE is addressed by primary key alone: it waits for the *)
(* row lock and then applies to whatever version is committed by then.  A  *)
(* column another transaction changed before the load is therefore written *)
(* back to its older value, and one changed after the load is kept.        *)
SaveOver(row, entity, loaded) ==
    [col \in DOMAIN row |->
        IF entity[col] # loaded[col] THEN entity[col] ELSE row[col]]

=============================================================================
