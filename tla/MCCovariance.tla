----------------------------- MODULE MCCovariance -----------------------------
(* An instance of Covariance for TLC: an extrinsic pose and a time offset. *)
EXTENDS Covariance, TLC

CONSTANTS ext, dt

MCCalibrated == <<ext, dt>>
MCCalibDim == (ext :> 6) @@ (dt :> 1)
=============================================================================
